---- MODULE Spec2Model ----
(***************************************************************************)
(* gitstreams: the paginated, cache-aware GitHub client (package github),  *)
(* the snapshot diff engine (package diff) and the snapshot builder        *)
(* fetchActivity (package main).                                           *)
(*                                                                         *)
(*   Spec      one client value driving getPaginated against a remote     *)
(*             resource, one blocking page request per step                *)
(*   LiveSpec  Spec with the fairness a running call has                   *)
(*   SpecGet   get and ClearCache called one at a time on one client       *)
(*             value, the remote answering with any status, validator,     *)
(*             body and quota headers                                      *)
(*   SpecDiff  diff.Compare applied to pairs of snapshots                  *)
(*   SpecFetch fetchActivity against a GitHubClient whose calls fail or    *)
(*             succeed one by one; the progress indicator it drives on     *)
(*             progressW is left out                                       *)
(***************************************************************************)
EXTENDS Integers, Sequences, FiniteSets, TLC

(***************************************************************************)
(* Bounds of the model and constants of the program                        *)
(***************************************************************************)

\* largest remote resource, in items
MaxN == 202

\* getPaginated calls made on one client value
MaxCalls == 2

\* items of activity in a pair of snapshots handed to Compare
MaxItems == 2

\* get calls made one by one on one client value
MaxGets == 3

\* users the account follows
MaxFollowed == 2

\* calls of run made one after the other on one store
MaxRuns == 3

\* goroutines calling one client at the same time
MaxThreads == 2
MaxSpinnerCalls == 4
MaxTicks == 1

perPage == 100

rateLimitWarningThreshold == 100

(***************************************************************************)
(* State                                                                   *)
(***************************************************************************)

VARIABLES
    \* the remote side
    basePath,    \* the resource path a public getter passes to getPaginated
    items,       \* the remote resource, in the order the API lists it
    etagsOn,     \* whether the remote API sends ETag validators
    clock,       \* time.Now(), counted in exchanges made
    \* github.Client
    cache,       \* Client.cache: path -> cacheEntry
    rateLimit,   \* Client.rateLimit, NoRateLimit for nil
    warned,      \* whether the last exchange logged "rate limit is low"
    \* get, called once per step, and what its caller has seen
    got,         \* the last get: path, If-None-Match sent, response, outcome
    asked,       \* the paths requested since NewClient or the last ClearCache
    wrote,       \* path -> outcome of the get that wrote the entry now cached
    lastGood,    \* path -> result of the last get that received a 2xx with a
                 \* validator and decoded it
    \* one getPaginated call and its caller
    pc,          \* "idle", "loop" (inside the for loop), "done" (returned)
    page,        \* local page
    sliceVal,    \* local sliceVal, the accumulator
    users,       \* the caller's slice variable, behind the result pointer
    resultSet,   \* whether resultVal.Elem().Set(sliceVal) was executed
    err,         \* the error getPaginated returned, NoErr for nil
    requests,    \* the requests of this call, as the server saw them
    fetched,     \* the page decoded by each successful get of this call
    failedAt,    \* index in requests of the get that failed, 0 if none
    calls,       \* getPaginated calls started so far
    \* diff.Compare and its caller
    old,         \* the old snapshot
    new,         \* the new snapshot
    result,      \* the Result returned by Compare
    compared,    \* whether Compare has returned
    \* fetchActivity and its caller
    verbose,     \* the verbose argument
    following,   \* the logins GetFollowedUsers lists when it succeeds
    fpc,         \* "idle", "start", "starred", "owned", "events", "returned"
    userIdx,     \* position of the range loop in the list of users
    activity,    \* local activity, the UserActivity being filled
    snapshot,    \* local snapshot; the snapshot returned, NoSnapshot for nil
    fetchErr,    \* the error returned, NoErr for nil
    stdout,      \* the lines written to w
    clientLog,   \* the calls made on the GitHubClient, in order
    failed,      \* the <<login, category>> fetches that returned an error
    served,      \* <<login, category>> -> the list its fetch returned
    \* snapshotToStorage and storageToSnapshot and their caller
    original,    \* the snapshot handed to snapshotToStorage
    storedDoc,   \* the storage.Snapshot it returned
    restored,    \* the snapshot storageToSnapshot returned
    convErr,     \* the error of the two conversions, NoErr for nil
    \* run, called again and again on one store
    timeNow,     \* deps.Now(), in seconds
    remote,      \* <<login, category>> -> the list the remote API holds
    store,       \* the rows of the snapshots table, in the order inserted
    runs,        \* the calls of run started so far
    rpc,         \* "idle", "fetching" (inside fetchActivity), "exited"
    cfg,         \* the Config parseFlags returned
    exitCode,    \* the value run returned, NoExit while it has not
    effects,     \* the calls this run made on its dependencies, in order
    report,      \* the Result this run wrote a report for, NoResult if none
    reportedBy,  \* <<login, category, identity>> -> the runs that reported it
    unreported,  \* the last normal-mode run that failed to write its report,
                 \* and the items its diff held
    allNormal,   \* whether every run so far was a normal-mode run returning 0
    \* goroutines calling one Client at the same time
    cacheMu,     \* Client.cacheMu: the goroutine holding it for writing, 0
                 \* for none, and those holding it for reading
    rateLimitMu, \* Client.rateLimitMu, likewise
    call,        \* goroutine -> the method it calls and its path
    tpc,         \* goroutine -> its position in the method
    locals,      \* goroutine -> its cached, its resp and what it returned
    storeLog,    \* the writes made to the cache map, in the order made
    \* progress.Spinner and its callers
    active,      \* Spinner.active
    message,     \* Spinner.message
    done,        \* Spinner.done: the channel, numbered by activation, 0 for nil
    isTTY,       \* Spinner.isTTY
    w,           \* what was written to Spinner.w, in the order written
    closes,      \* channel -> the number of times close was called on it
    spinning,    \* the live spin goroutines: activation -> local frame and
                 \* the channel its select waits on (0: not at the select)
    ticks,       \* the ticks of the tickers received so far
    panicked,    \* whether a call has panicked
    history      \* the calls made on the Spinner, in the order made

clientVars == <<cache, rateLimit, warned>>
getVars == <<got, asked, wrote, lastGood>>
remoteVars == <<basePath, items, etagsOn, clock>>
callVars == <<pc, page, sliceVal, users, resultSet, err, requests, fetched, failedAt, calls>>
diffVars == <<old, new, result, compared>>
fetchVars == <<verbose, following, fpc, userIdx, activity, snapshot, fetchErr, stdout,
               clientLog, failed, served>>
convVars == <<original, storedDoc, restored, convErr>>
runVars == <<timeNow, remote, store, runs, rpc, cfg, exitCode, effects, report, reportedBy,
             unreported, allNormal>>
concVars == <<cacheMu, rateLimitMu, call, tpc, locals, storeLog>>
spinVars == <<active, message, done, isTTY, w, closes, spinning, ticks, panicked, history>>
programVars == <<convVars, runVars, concVars, spinVars>>
vars == <<remoteVars, clientVars, getVars, callVars, diffVars, fetchVars, programVars>>

(***************************************************************************)
(* package github: values                                                  *)
(***************************************************************************)

NoErr == ""

\* time.Unix(sec, 0), and the zero time.Time{}
UnixTime(sec) == [unix |-> sec]

ZeroTime == [zero |-> TRUE]

NoRateLimit == [Limit |-> 0, Remaining |-> 0, Used |-> 0, Reset |-> ZeroTime, set |-> FALSE]

\* the X-RateLimit-Limit, -Remaining, -Reset and -Used headers of a
\* response, as resp.Header.Get returns them: "" for a header not sent
NoHeaders == [Limit |-> "", Remaining |-> "", Reset |-> "", Used |-> ""]

HighHeaders == [Limit |-> "5000", Remaining |-> "100", Reset |-> "1700003600", Used |-> "4900"]

LowHeaders == [Limit |-> "5000", Remaining |-> "99", Reset |-> "1700003600", Used |-> "4901"]

ExhaustedHeaders == [Limit |-> "5000", Remaining |-> "0", Reset |-> "1700003600", Used |-> "5000"]

\* all four headers sent, for a resource whose limit is zero
ZeroLimitHeaders == [Limit |-> "0", Remaining |-> "0", Reset |-> "1700003600", Used |-> "0"]

\* the limit alone
LimitOnlyHeaders == [Limit |-> "60", Remaining |-> "", Reset |-> "", Used |-> ""]

\* the headers the paginated calls of Spec meet
RateHeaders == {NoHeaders, HighHeaders, LowHeaders}

\* the headers the single calls of SpecGet meet
QuotaHeaders == {NoHeaders, HighHeaders, ExhaustedHeaders, ZeroLimitHeaders, LimitOnlyHeaders}

\* the header values of the model
HeaderValues == UNION { {h.Limit, h.Remaining, h.Reset, h.Used} : h \in RateHeaders \cup QuotaHeaders }

\* the base paths of GetFollowedUsers and GetOwnedRepos
BasePaths == {"/user/following", "/user/repos?type=owner"}

EmptyCache == <<>>

\* a response body: a JSON array of items, or text that is no JSON array
JSONArray(s) == [kind |-> "array", val |-> s]

TextBody(t) == [kind |-> "text", val |-> t]

\* json.Unmarshal of a body into a pointer to a slice
Unmarshal(body) ==
    IF body.kind = "array"
    THEN [ok |-> TRUE, val |-> body.val]
    ELSE [ok |-> FALSE, val |-> <<>>]

(***************************************************************************)
(* package github: get                                                     *)
(***************************************************************************)

\* c.cache[path], NoEntry for a nil entry
NoEntry == [etag |-> "", data |-> TextBody(""), timestamp |-> 0, present |-> FALSE]

Lookup(c, path) == IF path \in DOMAIN c THEN c[path] ELSE NoEntry

\* mutant of IfNoneMatch: the validator of any cached entry is sent
IfNoneMatchOfAnyEntry(c, path) ==
    IF DOMAIN c # {} THEN c[CHOOSE p \in DOMAIN c : TRUE].etag ELSE ""

\* the If-None-Match header get attaches, "" for none
IfNoneMatch(c, path) ==
    LET cached == Lookup(c, path)
    IN IF cached.present /\ cached.etag # "" THEN cached.etag ELSE ""

\* the value of a decimal digit
DigitValue(ch) == CHOOSE d \in 0..9 : SubSeq("0123456789", d + 1, d + 1) = ch

IsDigit(ch) == \E d \in 0..9 : SubSeq("0123456789", d + 1, d + 1) = ch

RECURSIVE ParseDigits(_, _)
ParseDigits(s, acc) ==
    IF Len(s) = 0 THEN acc
    ELSE ParseDigits(SubSeq(s, 2, Len(s)), acc * 10 + DigitValue(SubSeq(s, 1, 1)))

\* strconv.Atoi and strconv.ParseInt(s, 10, 64): an optional sign and
\* decimal digits (the values met here are far from the 64-bit range)
Atoi(s) ==
    LET signed == Len(s) > 0 /\ SubSeq(s, 1, 1) \in {"+", "-"}
        digits == IF signed THEN SubSeq(s, 2, Len(s)) ELSE s
    IN  IF Len(digits) = 0 \/ \E i \in 1..Len(digits) : ~IsDigit(SubSeq(digits, i, i))
        THEN [ok |-> FALSE, val |-> 0]
        ELSE [ok |-> TRUE,
              val |-> IF signed /\ SubSeq(s, 1, 1) = "-"
                      THEN 0 - ParseDigits(digits, 0)
                      ELSE ParseDigits(digits, 0)]

\* Atoi over the header values, computed once
AtoiOf == [v \in HeaderValues |-> Atoi(v)]

\* a field of rl := &RateLimit{} after its header v: set when v is sent
\* and parses, left at zero otherwise
ParsedField(v, zero) == IF v # "" /\ AtoiOf[v].ok THEN AtoiOf[v].val ELSE zero

\* the local rl of parseRateLimitHeaders after the four headers
ParsedHeaders(h) ==
    [Limit |-> ParsedField(h.Limit, 0),
     Remaining |-> ParsedField(h.Remaining, 0),
     Used |-> ParsedField(h.Used, 0),
     Reset |-> IF h.Reset # "" /\ AtoiOf[h.Reset].ok
               THEN UnixTime(AtoiOf[h.Reset].val)
               ELSE ZeroTime]

\* mutant of parseRateLimitHeaders: the used count of the old quota is kept
parseRateLimitHeadersKeepsUsed(rl, h) ==
    IF ParsedHeaders(h).Limit > 0
    THEN [ParsedHeaders(h) EXCEPT !.Used = rl.Used] @@ [set |-> TRUE]
    ELSE rl

\* parseRateLimitHeaders: the quota value after a response with headers h
parseRateLimitHeaders(rl, h) ==
    IF ParsedHeaders(h).Limit > 0
    THEN ParsedHeaders(h) @@ [set |-> TRUE]
    ELSE rl

\* mutant of WarnsLow: a quota at the threshold is warned about too
WarnsLowAtThreshold(h) ==
    /\ ParsedHeaders(h).Limit > 0
    /\ ParsedHeaders(h).Remaining <= rateLimitWarningThreshold

\* whether parseRateLimitHeaders logs the low-quota warning
WarnsLow(h) ==
    /\ ParsedHeaders(h).Limit > 0
    /\ ParsedHeaders(h).Remaining < rateLimitWarningThreshold

\* what GetRateLimit returns: nil, or a copy of the quota
Nil == [nil |-> TRUE]

GetRateLimit(rl) ==
    IF ~rl.set
    THEN Nil
    ELSE [Limit |-> rl.Limit, Remaining |-> rl.Remaining, Used |-> rl.Used, Reset |-> rl.Reset]

\* mutant of Store: an entry already cached keeps its body
StoreKeepsBody(c, path, etag, body, now) ==
    [p \in DOMAIN c \cup {path} |->
        IF p = path
        THEN [etag |-> etag, data |-> IF p \in DOMAIN c THEN c[p].data ELSE body,
              timestamp |-> now, present |-> TRUE]
        ELSE c[p]]

\* c.cache[path] = &cacheEntry{...}
Store(c, path, etag, body, now) ==
    [p \in DOMAIN c \cup {path} |->
        IF p = path
        THEN [etag |-> etag, data |-> body, timestamp |-> now, present |-> TRUE]
        ELSE c[p]]

TransportFailure == [status |-> 0, etag |-> "", body |-> TextBody(""), rl |-> NoHeaders]

\* string(body) of a response body
RECURSIVE JoinItems(_)
JoinItems(xs) ==
    IF Len(xs) = 0 THEN ""
    ELSE IF Len(xs) = 1 THEN ToString(Head(xs))
    ELSE ToString(Head(xs)) \o "," \o JoinItems(Tail(xs))

BodyString(body) == IF body.kind = "text" THEN body.val ELSE "[" \o JoinItems(body.val) \o "]"

\* mutant of APIError: the response body is left out of the error
APIErrorWithoutBody(status, body) == "API error (status " \o ToString(status) \o "): "

\* fmt.Errorf("API error (status %d): %s", resp.StatusCode, string(body))
APIError(status, body) ==
    "API error (status " \o ToString(status) \o "): " \o BodyString(body)

\* mutant of OnTransportFailure: the quota is forgotten
OnTransportFailureForgetsQuota(c, rl) == [cache |-> c, rateLimit |-> NoRateLimit, warn |-> FALSE]

\* the client after httpClient.Do failed: get returns before it parses
\* any header or touches the cache
OnTransportFailure(c, rl) == [cache |-> c, rateLimit |-> rl, warn |-> FALSE]

\* mutant of NotModifiedBody: the body of the 304 response is decoded
NotModifiedBodyFromNetwork(cached, resp) == resp.body

\* the bytes get decodes on a 304: cached.data
NotModifiedBody(cached, resp) == cached.data

\* mutant of OnNotModified: the entry is stamped again
OnNotModifiedTouches(c, path, now) == [c EXCEPT ![path].timestamp = now]

\* the cache after a 304 served from it: the branch writes nothing
OnNotModified(c, path, now) == c

\* mutant of AfterSuccess: the entry is written once the body has decoded
AfterSuccessStoresDecodedOnly(c, path, resp, now, decoded) ==
    IF resp.etag # "" /\ decoded THEN Store(c, path, resp.etag, resp.body, now) ELSE c

\* mutant of AfterSuccess: a response without validator clears the entry
AfterSuccessDropsUnvalidated(c, path, resp, now, decoded) ==
    IF resp.etag # ""
    THEN Store(c, path, resp.etag, resp.body, now)
    ELSE [q \in DOMAIN c \ {path} |-> c[q]]

\* the cache after a 2xx response: if etag != "" the entry is written,
\* before json.Unmarshal is called and so whether or not the body decodes
AfterSuccess(c, path, resp, now, decoded) ==
    IF resp.etag # "" THEN Store(c, path, resp.etag, resp.body, now) ELSE c

\* get: the outcome of one call for path when the exchange yields resp
\* (TransportFailure when httpClient.Do fails); val is what was decoded
\* into the result pointer
get(c, rl, path, resp, now) ==
    LET cached == Lookup(c, path)
        after == [cache |-> c, rateLimit |-> parseRateLimitHeaders(rl, resp.rl),
                  warn |-> WarnsLow(resp.rl)]
    IN  IF resp = TransportFailure
        THEN OnTransportFailure(c, rl) @@ [err |-> "executing request", val |-> <<>>]
        ELSE IF resp.status = 304 /\ cached.present
        THEN LET d == Unmarshal(NotModifiedBody(cached, resp))
                 kept == [after EXCEPT !.cache = OnNotModified(c, path, now)]
             IN IF d.ok
                THEN kept @@ [err |-> NoErr, val |-> d.val]
                ELSE kept @@ [err |-> "decoding cached response", val |-> <<>>]
        ELSE IF resp.status < 200 \/ resp.status >= 300
        THEN after @@ [err |-> APIError(resp.status, resp.body), val |-> <<>>]
        ELSE LET d == Unmarshal(resp.body)
                 stored == AfterSuccess(c, path, resp, now, d.ok)
             IN IF d.ok
                THEN [after EXCEPT !.cache = stored] @@ [err |-> NoErr, val |-> d.val]
                ELSE [after EXCEPT !.cache = stored] @@ [err |-> "decoding response", val |-> <<>>]

(***************************************************************************)
(* package github: getPaginated                                            *)
(***************************************************************************)

\* strings.Contains(s, ch) for a one-character ch
Contains(s, ch) == \E i \in 1..Len(s) : SubSeq(s, i, i) = ch

\* mutant of Separator: the parameters always start a query string
SeparatorAlwaysQuery(base) == "?"

\* the separator getPaginated puts before its parameters
Separator(base) == IF Contains(base, "?") THEN "&" ELSE "?"

\* fmt.Sprintf("%s%spage=%d&per_page=%d", basePath, separator, page, perPage)
PagePath(base, pg) ==
    base \o Separator(base) \o "page=" \o ToString(pg) \o "&per_page=" \o ToString(perPage)

\* mutant of AppendSlice: the page replaces the accumulator
AppendSliceOverwrites(acc, pageSlice) == pageSlice

\* reflect.AppendSlice(sliceVal, pageSlice)
AppendSlice(acc, pageSlice) == acc \o pageSlice

\* mutant of IsLastPage: a full page counts as the last one too
IsLastPageWhenFull(pageSlice) == Len(pageSlice) <= perPage

\* mutant of IsLastPage: the size of a page never ends the loop
IsLastPageNever(pageSlice) == FALSE

\* pageSlice.Len() < perPage: the page is the last one
IsLastPage(pageSlice) == Len(pageSlice) < perPage

\* page++
NextPage(pg) == pg + 1

\* mutant of OnError: the pages gathered so far are handed to the caller
OnErrorKeepsPartial(callerSlice, acc) == acc

\* what the caller's slice holds when getPaginated returns an error
OnError(callerSlice, acc) == callerSlice

(***************************************************************************)
(* The remote API, as the test servers of client_test.go serve it          *)
(***************************************************************************)

Min(a, b) == IF a < b THEN a ELSE b

\* the items of page pg (1-based) of resource rs at per_page = perPage
PageItems(rs, pg) == SubSeq(rs, (pg - 1) * perPage + 1, Min(pg * perPage, Len(rs)))

\* the sizes of the remote resource: those within two items of a multiple
\* of perPage, where the end of the data and the end of a page meet
Sizes == {n \in 0..MaxN : n % perPage <= 2 \/ n % perPage >= perPage - 2}

\* the validator the API sends with page pg
ETagOf(pg) == "W/\"page" \o ToString(pg) \o "\""

\* the responses the exchange for page pg can end with, the request
\* carrying If-None-Match inm
Responses(pg, inm) ==
    {TransportFailure}
    \cup { [status |-> 500, etag |-> "", body |-> TextBody("Internal Server Error"), rl |-> h] :
             h \in RateHeaders }
    \cup { [status |-> 200, etag |-> IF etagsOn THEN ETagOf(pg) ELSE "",
            body |-> TextBody("<html>"), rl |-> h] : h \in RateHeaders }
    \cup { IF etagsOn /\ inm = ETagOf(pg)
           THEN [status |-> 304, etag |-> ETagOf(pg), body |-> TextBody(""), rl |-> h]
           ELSE [status |-> 200, etag |-> IF etagsOn THEN ETagOf(pg) ELSE "",
                 body |-> JSONArray(PageItems(items, pg)), rl |-> h] : h \in RateHeaders }

(***************************************************************************)
(* Actions of Spec                                                         *)
(***************************************************************************)

\* a public getter (GetFollowedUsers, ...) declares its slice and calls
\* getPaginated, which runs up to the first get
GetPaginatedStart ==
    /\ pc \in {"idle", "done"}
    /\ calls < MaxCalls
    /\ calls' = calls + 1
    /\ pc' = "loop"
    /\ page' = 1
    /\ users' = <<>>
    /\ sliceVal' = <<>>
    /\ resultSet' = FALSE
    /\ err' = NoErr
    /\ requests' = <<>>
    /\ fetched' = <<>>
    /\ failedAt' = 0
    /\ UNCHANGED <<basePath, items, etagsOn, clock, clientVars, getVars, diffVars, fetchVars, programVars>>

\* one iteration of the for loop: build the path, get the page, then
\* return the error, or stop, or append and go on
GetPaginatedIter ==
    /\ pc = "loop"
    /\ LET path == PagePath(basePath, page)
           inm == IfNoneMatch(cache, path)
       IN \E resp \in Responses(page, inm) :
            LET r == get(cache, rateLimit, path, resp, clock)
                pageSlice == r.val
                acc == AppendSlice(sliceVal, pageSlice)
            IN /\ requests' = Append(requests, [path |-> path, ifNoneMatch |-> inm])
               /\ clock' = clock + 1
               /\ cache' = r.cache
               /\ rateLimit' = r.rateLimit
               /\ warned' = r.warn
               /\ IF r.err # NoErr
                  THEN /\ err' = r.err
                       /\ failedAt' = Len(requests) + 1
                       /\ users' = OnError(users, sliceVal)
                       /\ pc' = "done"
                       /\ UNCHANGED <<page, sliceVal, resultSet, fetched>>
                  ELSE /\ fetched' = Append(fetched, pageSlice)
                       /\ UNCHANGED <<err, failedAt>>
                       /\ IF Len(pageSlice) = 0
                          THEN /\ users' = sliceVal
                               /\ resultSet' = TRUE
                               /\ pc' = "done"
                               /\ UNCHANGED <<page, sliceVal>>
                          ELSE IF IsLastPage(pageSlice)
                          THEN /\ sliceVal' = acc
                               /\ users' = acc
                               /\ resultSet' = TRUE
                               /\ pc' = "done"
                               /\ UNCHANGED page
                          ELSE /\ sliceVal' = acc
                               /\ page' = NextPage(page)
                               /\ UNCHANGED <<users, resultSet, pc>>
    /\ UNCHANGED <<basePath, items, etagsOn, calls, getVars, diffVars, fetchVars, programVars>>

\* Client.ClearCache
ClearCache ==
    /\ pc \in {"idle", "done"}
    /\ cache # EmptyCache
    /\ cache' = EmptyCache
    /\ asked' = {}
    /\ wrote' = <<>>
    /\ UNCHANGED <<remoteVars, rateLimit, warned, got, lastGood, callVars, diffVars, fetchVars, programVars>>

NoGet == [path |-> "", ifNoneMatch |-> "", resp |-> TransportFailure, err |-> NoErr, val |-> <<>>]

GetIdle ==
    /\ got = NoGet
    /\ asked = {}
    /\ wrote = <<>>
    /\ lastGood = <<>>

NoSnapshot == [CapturedAt |-> 0, Users |-> <<>>]

NoResult == [OldCapturedAt |-> 0, NewCapturedAt |-> 0, NewStars |-> <<>>, NewRepos |-> <<>>,
             NewEvents |-> <<>>, NewUsers |-> <<>>, GoneUsers |-> <<>>]

DiffIdle ==
    /\ old = NoSnapshot
    /\ new = NoSnapshot
    /\ result = NoResult
    /\ compared = FALSE

NoActivity == [Username |-> "", StarredRepos |-> <<>>, OwnedRepos |-> <<>>, Events |-> <<>>]

NoDoc == [UserID |-> "", Timestamp |-> 0, Activity |-> <<>>]

ConvIdle ==
    /\ original = NoSnapshot
    /\ storedDoc = NoDoc
    /\ restored = NoSnapshot
    /\ convErr = NoErr

\* the first value of deps.Now()
FetchNow == 1700000000

NoExit == 0 - 1

NoConfig ==
    [Version |-> FALSE, Days |-> 0, Offline |-> FALSE, Since |-> "", Token |-> "",
     NoNotify |-> FALSE, NoOpen |-> FALSE]

NoneUnreported == [run |-> 0, items |-> {}]

RunIdle ==
    /\ timeNow = FetchNow
    /\ remote = <<>>
    /\ store = <<>>
    /\ runs = 0
    /\ rpc = "idle"
    /\ cfg = NoConfig
    /\ exitCode = NoExit
    /\ effects = <<>>
    /\ report = NoResult
    /\ reportedBy = <<>>
    /\ unreported = NoneUnreported
    /\ allNormal = TRUE

\* a sync.RWMutex nobody holds
Unlocked == [writer |-> 0, readers |-> {}]

ConcIdle ==
    /\ cacheMu = Unlocked
    /\ rateLimitMu = Unlocked
    /\ call = <<>>
    /\ tpc = <<>>
    /\ locals = <<>>
    /\ storeLog = <<>>

SpinIdle ==
    /\ active = FALSE
    /\ message = ""
    /\ done = 0
    /\ isTTY = FALSE
    /\ w = <<>>
    /\ closes = <<>>
    /\ spinning = <<>>
    /\ ticks = 0
    /\ panicked = FALSE
    /\ history = <<>>

ProgramIdle == ConvIdle /\ RunIdle /\ ConcIdle /\ SpinIdle

FetchIdle ==
    /\ verbose = FALSE
    /\ following = <<>>
    /\ fpc = "idle"
    /\ userIdx = 0
    /\ activity = NoActivity
    /\ snapshot = NoSnapshot
    /\ fetchErr = NoErr
    /\ stdout = <<>>
    /\ clientLog = <<>>
    /\ failed = {}
    /\ served = <<>>

Init ==
    /\ basePath \in BasePaths
    /\ items \in {[i \in 1..n |-> i] : n \in Sizes}
    /\ etagsOn \in BOOLEAN
    /\ clock = 1
    /\ cache = EmptyCache
    /\ rateLimit = NoRateLimit
    /\ warned = FALSE
    /\ GetIdle
    /\ pc = "idle"
    /\ page = 0
    /\ sliceVal = <<>>
    /\ users = <<>>
    /\ resultSet = FALSE
    /\ err = NoErr
    /\ requests = <<>>
    /\ fetched = <<>>
    /\ failedAt = 0
    /\ calls = 0
    /\ DiffIdle
    /\ FetchIdle
    /\ ProgramIdle

Next ==
    \/ GetPaginatedStart
    \/ GetPaginatedIter
    \/ ClearCache

Spec == Init /\ [][Next]_vars

\* a call that is inside its loop goes on: the only suspension point is the
\* blocking exchange, which ends with a response or a failure
LiveSpec == Spec /\ WF_vars(GetPaginatedIter)

(***************************************************************************)
(* The request as the server reads it (r.URL.Path, r.URL.Query())          *)
(***************************************************************************)

\* position of the first ch in s, 0 when there is none
IndexOf(s, ch) ==
    IF Contains(s, ch)
    THEN CHOOSE i \in 1..Len(s) :
            /\ SubSeq(s, i, i) = ch
            /\ \A j \in 1..(i - 1) : SubSeq(s, j, j) # ch
    ELSE 0

URLPath(p) == IF IndexOf(p, "?") = 0 THEN p ELSE SubSeq(p, 1, IndexOf(p, "?") - 1)

RawQuery(p) == IF IndexOf(p, "?") = 0 THEN "" ELSE SubSeq(p, IndexOf(p, "?") + 1, Len(p))

\* the key=value parameters of a raw query, in order
RECURSIVE QueryParams(_)
QueryParams(q) ==
    IF q = "" THEN <<>>
    ELSE IF IndexOf(q, "&") = 0 THEN <<q>>
    ELSE <<SubSeq(q, 1, IndexOf(q, "&") - 1)>> \o QueryParams(SubSeq(q, IndexOf(q, "&") + 1, Len(q)))

\* the concatenation of a sequence of pages
RECURSIVE Flatten(_)
Flatten(ps) == IF ps = <<>> THEN <<>> ELSE Head(ps) \o Flatten(Tail(ps))

Returned == pc = "done" /\ err = NoErr

(***************************************************************************)
(* Claims on getPaginated                                                  *)
(***************************************************************************)

C7_ResultIsConcatenationOfPages ==
    Returned =>
        /\ resultSet
        /\ users = Flatten(fetched)
        /\ users = items
        /\ \A i \in 1..Len(fetched) : fetched[i] = PageItems(items, i)

C7_Witness ==
    /\ Returned
    /\ Len(items) = 202
    /\ Len(requests) = 3
    /\ Len(fetched[1]) = 100 /\ Len(fetched[2]) = 100 /\ Len(fetched[3]) = 2
    /\ users = items

\* C8: when the get of page k fails the call has returned that error, the
\* failed request is the last one of the call, and the caller's slice is
\* left unset: none of the items of pages 1..k-1 reach the caller.
C8_PageFailureAbortsWithoutPartialResult ==
    failedAt # 0 =>
        /\ pc = "done"
        /\ err # NoErr
        /\ failedAt = Len(requests)
        /\ ~resultSet
        /\ users = <<>>

C8_Witness ==
    /\ failedAt = 3
    /\ err # NoErr
    /\ Len(sliceVal) = 2 * perPage
    /\ users = <<>>

\* C9: the i-th request of a call asks for page i with per_page=100, on the
\* URL path of basePath, after the parameters basePath already had.
C9_ConsecutivePagesAndQuery ==
    \A i \in 1..Len(requests) :
        /\ URLPath(requests[i].path) = URLPath(basePath)
        /\ QueryParams(RawQuery(requests[i].path)) =
              QueryParams(RawQuery(basePath)) \o <<"page=" \o ToString(i), "per_page=100">>

C9_Witness ==
    /\ Len(requests) = 3
    /\ basePath = "/user/repos?type=owner"
    /\ requests[3].path = "/user/repos?type=owner&page=3&per_page=100"
    /\ Returned

\* C10: a page that is empty or shorter than perPage ends the call with
\* success and is its last request; and a call that is running returns.
StopsOnShortPage ==
    \A i \in 1..Len(fetched) :
        Len(fetched[i]) < perPage =>
            /\ i = Len(requests)
            /\ pc = "done"
            /\ err = NoErr
            /\ resultSet

C10_StopsOnShortPageAndTerminates ==
    /\ []StopsOnShortPage
    /\ [](pc = "loop" => <>(pc = "done"))

C10_Witness ==
    /\ Len(fetched) = 3
    /\ Len(fetched[3]) = 2
    /\ Len(requests) = 3
    /\ Returned

(***************************************************************************)
(* SpecGet: get called once per step on one client value, for two page     *)
(* paths of one resource, against a remote that may answer anything        *)
(***************************************************************************)

\* the paths asked for: they differ in their query string only
GetPaths == {PagePath("/user/following", 1), PagePath("/user/following", 2)}

ETags == {"", "\"abc123\"", "\"def456\""}

Bodies == {JSONArray(<<1, 2>>), JSONArray(<<3>>), TextBody("<html>")}

\* the ways the exchange of a request carrying If-None-Match inm can end:
\* a 200 with any validator and body, a 200 or a 403 with any quota
\* headers, a 304 in answer to a conditional request, a transport failure
GetResponses(inm) ==
    {TransportFailure}
    \cup { [status |-> 200, etag |-> e, body |-> b, rl |-> NoHeaders] : e \in ETags, b \in Bodies }
    \cup { [status |-> 200, etag |-> "\"abc123\"", body |-> JSONArray(<<1, 2>>), rl |-> h] :
             h \in QuotaHeaders }
    \cup { [status |-> 403, etag |-> "", body |-> TextBody("API rate limit exceeded"), rl |-> h] :
             h \in QuotaHeaders }
    \cup { [status |-> 304, etag |-> inm, body |-> TextBody(""), rl |-> h] :
             h \in IF inm = "" THEN {} ELSE QuotaHeaders }

\* the response is a 2xx that carries a validator
Validated(resp) ==
    /\ resp # TransportFailure
    /\ resp.status >= 200 /\ resp.status < 300
    /\ resp.etag # ""

\* one call of get, from the request to the return
Get ==
    /\ pc = "idle"
    /\ clock <= MaxGets
    /\ \E path \in GetPaths :
          LET inm == IfNoneMatch(cache, path)
          IN \E resp \in GetResponses(inm) :
                LET r == get(cache, rateLimit, path, resp, clock)
                IN /\ got' = [path |-> path, ifNoneMatch |-> inm, resp |-> resp,
                              err |-> r.err, val |-> r.val]
                   /\ asked' = asked \cup {path}
                   /\ wrote' = IF Validated(resp)
                                THEN (path :> [ok |-> r.err = NoErr, val |-> r.val]) @@ wrote
                                ELSE wrote
                   /\ lastGood' = IF Validated(resp) /\ r.err = NoErr
                                   THEN (path :> r.val) @@ lastGood
                                   ELSE lastGood
                   /\ clock' = clock + 1
                   /\ cache' = r.cache
                   /\ rateLimit' = r.rateLimit
                   /\ warned' = r.warn
    /\ UNCHANGED <<basePath, items, etagsOn, callVars, diffVars, fetchVars, programVars>>

InitGet ==
    /\ basePath = "/user/following"
    /\ items = <<>>
    /\ etagsOn = TRUE
    /\ clock = 1
    /\ cache = EmptyCache
    /\ rateLimit = NoRateLimit
    /\ warned = FALSE
    /\ GetIdle
    /\ pc = "idle"
    /\ page = 0
    /\ sliceVal = <<>>
    /\ users = <<>>
    /\ resultSet = FALSE
    /\ err = NoErr
    /\ requests = <<>>
    /\ fetched = <<>>
    /\ failedAt = 0
    /\ calls = 0
    /\ DiffIdle
    /\ FetchIdle
    /\ ProgramIdle

NextGet ==
    \/ Get
    \/ ClearCache

SpecGet == InitGet /\ [][NextGet]_vars

(***************************************************************************)
(* Claims on get                                                           *)
(***************************************************************************)

\* the step is a call of get
GetStep == clock' = clock + 1

\* C11 as stated: a get that receives 304 for a path succeeds with the
\* result of the last get of that path that received a 2xx with a validator
\* and decoded it.
C11_NotModifiedRepeatsLastDecodedFetch ==
    got.resp.status = 304 /\ got.path \in DOMAIN lastGood =>
        /\ got.err = NoErr
        /\ got.val = lastGood[got.path]

\* C11, amended: a get that receives 304 for a path while the cache still
\* holds the entry written by an earlier get of that path (no later 2xx
\* with a validator replaced it, no ClearCache dropped it), that earlier
\* get having decoded its body, succeeds with the result of that earlier
\* get, decoded from the cached body and not from the empty body of the
\* 304.
C11_NotModifiedRepeatsFetchThatWroteEntry ==
    /\ got.resp.status = 304
    /\ got.path \in DOMAIN wrote
    /\ wrote[got.path].ok
    => /\ got.err = NoErr
       /\ got.val = wrote[got.path].val
       /\ got.resp.body = TextBody("")

C11_Witness ==
    /\ got.resp.status = 304
    /\ got.path \in DOMAIN wrote
    /\ wrote[got.path].ok
    /\ got.err = NoErr
    /\ got.val = <<1, 2>>
    /\ got.ifNoneMatch = "\"abc123\""

\* C12: a request carries If-None-Match exactly when the cache holds an
\* entry for its exact path, query string included, at the time of the
\* lookup, and the value sent is the validator of that entry; the first
\* request for a path since NewClient or since the last ClearCache carries
\* none.
C12_IfNoneMatchIffEntryForExactPath ==
    [][GetStep =>
         /\ got'.ifNoneMatch # "" <=> got'.path \in DOMAIN cache
         /\ got'.path \in DOMAIN cache => got'.ifNoneMatch = cache[got'.path].etag
         /\ got'.path \notin asked => got'.ifNoneMatch = ""]_vars

C12_Witness ==
    /\ got.path = PagePath("/user/following", 1)
    /\ got.ifNoneMatch = "\"def456\""
    /\ PagePath("/user/following", 2) \in DOMAIN cache
    /\ cache[PagePath("/user/following", 2)].etag = "\"abc123\""

\* C13: after a 2xx response with a validator the cache entry of the
\* requested path holds exactly the body and the validator of that
\* response, stamped with the time of the store, whatever it held before,
\* and the entries of all other paths are as they were.
C13_StoreReplacesEntryOfPathOnly ==
    [][GetStep /\ Validated(got'.resp) =>
         /\ DOMAIN cache' = DOMAIN cache \cup {got'.path}
         /\ cache'[got'.path] = [etag |-> got'.resp.etag, data |-> got'.resp.body,
                                  timestamp |-> clock, present |-> TRUE]
         /\ \A p \in DOMAIN cache \ {got'.path} : cache'[p] = cache[p]]_vars

C13_Witness ==
    /\ Validated(got.resp)
    /\ got.ifNoneMatch # ""
    /\ got.ifNoneMatch # got.resp.etag
    /\ got.path \in DOMAIN cache
    /\ got.path \in DOMAIN wrote
    /\ cache[got.path].data = got.resp.body
    /\ wrote[got.path].ok
    /\ \E p \in DOMAIN cache : p # got.path /\ cache[p].data # got.resp.body

\* C14: a 304 served from the cache leaves the cache as it was: the entry
\* keeps its validator, its body and its timestamp, and no entry is added
\* or removed.
C14_NotModifiedLeavesCacheUnchanged ==
    [][GetStep /\ got'.resp.status = 304 /\ got'.path \in DOMAIN cache =>
         cache' = cache]_vars

C14_Witness ==
    /\ got.resp.status = 304
    /\ got.err = NoErr
    /\ got.path \in DOMAIN cache
    /\ cache[got.path].timestamp + 2 <= clock

\* whether t occurs in s
HasSubstring(s, t) ==
    \E i \in 1..(Len(s) - Len(t) + 1) : SubSeq(s, i, i + Len(t) - 1) = t

\* the response has a status outside 2xx and is no 304 served from the cache
IsAPIErrorResponse(resp, c, path) ==
    /\ resp # TransportFailure
    /\ resp.status < 200 \/ resp.status >= 300
    /\ ~(resp.status = 304 /\ path \in DOMAIN c)

\* C15: when the status of the response is outside 2xx and the response is
\* not a 304 served from the cache, get returns an error that carries the
\* status code and the body of the response, decodes nothing, and leaves
\* every cache entry as it was.
C15_ErrorStatusFailsAndLeavesCacheUnchanged ==
    [][GetStep /\ IsAPIErrorResponse(got'.resp, cache, got'.path) =>
         /\ got'.err # NoErr
         /\ HasSubstring(got'.err, ToString(got'.resp.status))
         /\ HasSubstring(got'.err, got'.resp.body.val)
         /\ got'.val = <<>>
         /\ cache' = cache]_vars

C15_Witness ==
    /\ got.resp.status = 403
    /\ got.err = "API error (status 403): API rate limit exceeded"
    /\ got.path \in DOMAIN cache
    /\ got.ifNoneMatch # ""

\* the response carries all four quota headers
CarriesQuotaHeaders(resp) ==
    /\ resp # TransportFailure
    /\ resp.rl.Limit # "" /\ resp.rl.Remaining # ""
    /\ resp.rl.Used # "" /\ resp.rl.Reset # ""

\* the limit header of the response parses to a positive number
CarriesPositiveLimit(resp) ==
    /\ resp # TransportFailure
    /\ ParsedHeaders(resp.rl).Limit > 0

\* C16 as stated: after any response that carries the quota headers,
\* whatever its status, GetRateLimit returns the limit, remaining, used and
\* reset values parsed from it; a response without quota headers leaves the
\* quota as it was.
C16_QuotaFollowsEveryResponseWithHeaders ==
    [][GetStep =>
         /\ CarriesQuotaHeaders(got'.resp) =>
               GetRateLimit(rateLimit') = ParsedHeaders(got'.resp.rl)
         /\ got'.resp.rl = NoHeaders => rateLimit' = rateLimit]_vars

\* C16, amended: GetRateLimit returns nil until a response whose limit
\* header parses to a positive number has been received; after any such
\* response, whatever its status, it returns the limit, remaining, used and
\* reset values parsed from that response, a header that is absent or does
\* not parse counting as zero; every other response, and every other
\* operation, leaves the quota as it was.
C16_QuotaFollowsResponsesWithPositiveLimit ==
    /\ GetRateLimit(rateLimit) = Nil
    /\ [][IF GetStep /\ CarriesPositiveLimit(got'.resp)
           THEN GetRateLimit(rateLimit') = ParsedHeaders(got'.resp.rl)
           ELSE rateLimit' = rateLimit]_vars

C16_Witness ==
    /\ got.resp.status = 403
    /\ got.resp.rl = ExhaustedHeaders
    /\ got.ifNoneMatch # ""
    /\ GetRateLimit(rateLimit) =
          [Limit |-> 5000, Remaining |-> 0, Used |-> 5000, Reset |-> UnixTime(1700003600)]

\* the response reports a remaining quota below the threshold
ReportsLowRemaining(resp) ==
    /\ resp # TransportFailure
    /\ resp.rl.Remaining # ""
    /\ ParsedHeaders(resp.rl).Remaining < rateLimitWarningThreshold

\* the outcome of the get of this step is the outcome it would have had on
\* a client that holds no quota, for the same response without its quota
\* headers: nothing is failed, skipped or changed because of the quota
QuotaBlind ==
    LET plain == get(cache, NoRateLimit, got'.path,
                     [got'.resp EXCEPT !.rl = NoHeaders], clock)
    IN /\ got'.err = plain.err
       /\ got'.val = plain.val
       /\ cache' = plain.cache

\* C17 as stated: whenever a response reports remaining below 100 a warning
\* is emitted, and the outcome of the fetch does not depend on the quota.
C17_WarnsWheneverRemainingIsLow ==
    [][GetStep =>
         /\ ReportsLowRemaining(got'.resp) => warned'
         /\ QuotaBlind]_vars

\* C17, amended: a warning is emitted exactly when the limit header of the
\* response parses to a positive number and its remaining value, zero when
\* the header is absent, is below 100; the outcome of that fetch and of any
\* later one does not depend on the quota, also when remaining is 0.
C17_WarnsOnLowQuotaAndNeverEnforces ==
    [][GetStep =>
         /\ warned' <=> /\ CarriesPositiveLimit(got'.resp)
                         /\ ParsedHeaders(got'.resp.rl).Remaining < rateLimitWarningThreshold
         /\ QuotaBlind]_vars

C17_Witness ==
    /\ rateLimit.set
    /\ rateLimit.Remaining = 0
    /\ got.resp.rl = NoHeaders
    /\ got.resp.status = 200
    /\ got.err = NoErr
    /\ got.val = <<3>>
    /\ ~warned

Undecodable(body) == ~Unmarshal(body).ok

\* C34: a get that receives a 2xx with a validator and a body that does not
\* decode returns a decode error and still leaves body and validator in
\* the cache entry of its path; a later get of that path that is answered
\* 304 while the entry is there returns a decode error on the cached body,
\* decodes nothing and leaves the entry where it is
C34_UndecodableBodyStaysCached ==
    [][/\ GetStep /\ Validated(got'.resp) /\ Undecodable(got'.resp.body) =>
             /\ got'.err = "decoding response"
             /\ got'.val = <<>>
             /\ got'.path \in DOMAIN cache'
             /\ cache'[got'.path].data = got'.resp.body
             /\ cache'[got'.path].etag = got'.resp.etag
             /\ got'.path \in DOMAIN wrote' /\ ~wrote'[got'.path].ok
       /\ GetStep /\ got'.resp.status = 304 /\ got'.path \in DOMAIN wrote /\ ~wrote[got'.path].ok =>
             /\ Undecodable(cache[got'.path].data)
             /\ got'.ifNoneMatch = cache[got'.path].etag
             /\ got'.err = "decoding cached response"
             /\ got'.val = <<>>
             /\ cache' = cache]_vars

\* a 200 with a validator and an HTML body was cached, and the next
\* request for the path, answered 304, failed on the cached body
C34_Witness ==
    /\ got.resp.status = 304
    /\ got.err = "decoding cached response"
    /\ got.path \in DOMAIN cache
    /\ cache[got.path].data = TextBody("<html>")
    /\ got.ifNoneMatch = cache[got.path].etag

\* the step is a call of ClearCache
ClearStep == clock' = clock /\ cache' # cache

\* C35: every cache entry has a non-empty validator; each step leaves every
\* entry as it was except that a get answered 2xx with a validator puts
\* the body and validator of that response at its own path, and that
\* ClearCache removes all entries; so an entry always holds the body of a
\* 2xx response received for its path, a 2xx without validator adds,
\* changes and removes nothing, and nothing but ClearCache removes an entry
C35_EntriesComeFromValidatedResponses ==
    [][/\ \A p \in DOMAIN cache' : cache'[p].present /\ cache'[p].etag # ""
       /\ ClearStep => cache' = EmptyCache
       /\ ~ClearStep => DOMAIN cache \subseteq DOMAIN cache'
       /\ GetStep /\ ~Validated(got'.resp) => cache' = cache
       /\ \A p \in DOMAIN cache' :
             \/ p \in DOMAIN cache /\ cache'[p] = cache[p]
             \/ /\ GetStep /\ Validated(got'.resp) /\ got'.path = p
                /\ cache'[p].etag = got'.resp.etag
                /\ cache'[p].data = got'.resp.body]_vars

\* a path has a cached entry, and a 200 without validator for that path,
\* with another body, has just been decoded: the entry is still there
C35_Witness ==
    /\ got.resp.status = 200
    /\ got.resp.etag = ""
    /\ got.err = NoErr
    /\ got.path \in DOMAIN cache
    /\ cache[got.path].data # got.resp.body
    /\ got.ifNoneMatch = cache[got.path].etag

(***************************************************************************)
(* package diff: values                                                    *)
(***************************************************************************)

\* time.Time, in UTC as the API and the store's JSON deliver it
Time(sec, nsec) == [sec |-> sec, nsec |-> nsec]

\* t.Format(time.RFC3339): the time to the second, the fraction dropped
FormatRFC3339(t) == ToString(t.sec) \o "Z"

\* a Go int of 64 bits that is not negative, hi * 2^30 + lo
Limb == 2^30

WideInt(hi, lo) == [hi |-> hi, lo |-> lo]

GoInt(n) == WideInt(0, n)

Usernames == {"alice", "bob"}

\* x/y twice, its star count, description, language and createdAt changed
\* in between, and x/b of the same owner
RepoPool ==
    { [Owner |-> "x", Name |-> "y", Stars |-> GoInt(1), Description |-> "d", Language |-> "Go",
       CreatedAt |-> Time(10, 0)],
      [Owner |-> "x", Name |-> "y", Stars |-> GoInt(2), Description |-> "e", Language |-> "Rust",
       CreatedAt |-> Time(11, 0)],
      [Owner |-> "x", Name |-> "b", Stars |-> GoInt(1), Description |-> "d", Language |-> "Go",
       CreatedAt |-> Time(10, 0)] }

\* a push, the same push half a second later, the same push a second later,
\* and two events whose type and actor differ but join to the same text
EventPool ==
    { [Type |-> "PushEvent", Actor |-> "alice", Repo |-> "x/y", CreatedAt |-> Time(10, 0)],
      [Type |-> "PushEvent", Actor |-> "alice", Repo |-> "x/y", CreatedAt |-> Time(10, 500000000)],
      [Type |-> "PushEvent", Actor |-> "alice", Repo |-> "x/y", CreatedAt |-> Time(11, 0)],
      [Type |-> "Push|Event", Actor |-> "bob", Repo |-> "x/y", CreatedAt |-> Time(10, 0)],
      [Type |-> "Push", Actor |-> "Event|bob", Repo |-> "x/y", CreatedAt |-> Time(10, 0)] }

UserActivity(u, st, ow, ev) ==
    [Username |-> u, StarredRepos |-> st, OwnedRepos |-> ow, Events |-> ev]

\* NewSnapshot(capturedAt), then Users filled
Snapshot(at, us) == [CapturedAt |-> at, Users |-> us]

(***************************************************************************)
(* package diff: Compare                                                   *)
(***************************************************************************)

\* mutant of FullName: the owner alone
FullNameOwnerOnly(r) == r.Owner

\* Repo.FullName
FullName(r) == r.Owner \o "/" \o r.Name

\* repoSet: the full names of repos
repoSet(repos) == {FullName(repos[i]) : i \in 1..Len(repos)}

\* eventKey
eventKey(e) == e.Type \o "|" \o e.Actor \o "|" \o e.Repo \o "|" \o FormatRFC3339(e.CreatedAt)

\* eventSet: the keys of events
eventSet(events) == {eventKey(events[i]) : i \in 1..Len(events)}

RepoChanges(u, repos) == [i \in 1..Len(repos) |-> [Username |-> u, Repo |-> repos[i]]]

EventChanges(u, events) == [i \in 1..Len(events) |-> [Username |-> u, Event |-> events[i]]]

\* mutant of OldStars: the set is built from the owned repos
OldStarsFromOwned(oldActivity) == repoSet(oldActivity.OwnedRepos)

\* the sets Compare builds from the old activity of a user in both snapshots
OldStars(oldActivity) == repoSet(oldActivity.StarredRepos)

OldOwned(oldActivity) == repoSet(oldActivity.OwnedRepos)

OldEvents(oldActivity) == eventSet(oldActivity.Events)

\* what the third loop appends for a user that is not in old
StarsOfNewUser(u, act) == RepoChanges(u, act.StarredRepos)

ReposOfNewUser(u, act) == RepoChanges(u, act.OwnedRepos)

\* mutant of EventsOfNewUser: the events of a new user are left out
EventsOfNewUserNone(u, act) == <<>>

EventsOfNewUser(u, act) == EventChanges(u, act.Events)

RECURSIVE Once(_)
\* a sequence with the later occurrences of every element left out
Once(seq) ==
    IF seq = <<>> THEN <<>>
    ELSE LET front == SubSeq(seq, 1, Len(seq) - 1)
             last == seq[Len(seq)]
         IN  IF \E k \in 1..Len(front) : front[k] = last
             THEN Once(front)
             ELSE Append(Once(front), last)

\* mutant of StarsOfKnownUser: a repo that occurs twice is emitted once
StarsOfKnownUserOnce(u, oldAct, act) ==
    RepoChanges(u, Once(SelectSeq(act.StarredRepos, LAMBDA r : FullName(r) \notin OldStars(oldAct))))

\* mutant of ReposOfKnownUser: the repos that are gone are emitted too
ReposOfKnownUserAndGone(u, oldAct, act) ==
    RepoChanges(u, SelectSeq(act.OwnedRepos, LAMBDA r : FullName(r) \notin OldOwned(oldAct))
                      \o SelectSeq(oldAct.OwnedRepos,
                                   LAMBDA r : FullName(r) \notin repoSet(act.OwnedRepos)))

\* what the third loop appends for a user that is in both
StarsOfKnownUser(u, oldAct, act) ==
    RepoChanges(u, SelectSeq(act.StarredRepos, LAMBDA r : FullName(r) \notin OldStars(oldAct)))

ReposOfKnownUser(u, oldAct, act) ==
    RepoChanges(u, SelectSeq(act.OwnedRepos, LAMBDA r : FullName(r) \notin OldOwned(oldAct)))

EventsOfKnownUser(u, oldAct, act) ==
    EventChanges(u, SelectSeq(act.Events, LAMBDA e : eventKey(e) \notin OldEvents(oldAct)))

\* mutant of NewUsersOf: the loop stops after the first user it visits
NewUsersOfFirstVisited(o, n, order) ==
    IF order = <<>> THEN <<>>
    ELSE SelectSeq(<<Head(order)>>, LAMBDA u : u \notin DOMAIN o.Users)

\* the first loop: the users of new that old does not have, as visited
NewUsersOf(o, n, order) == SelectSeq(order, LAMBDA u : u \notin DOMAIN o.Users)

\* mutant of GoneUsersOf: the lookup is made in old
GoneUsersOfLooksInOld(o, n, order) == SelectSeq(order, LAMBDA u : u \notin DOMAIN o.Users)

\* the second loop: the users of old that new does not have, as visited
GoneUsersOf(o, n, order) == SelectSeq(order, LAMBDA u : u \notin DOMAIN n.Users)

\* the third loop, over the users of new in the order visited
RECURSIVE StarsLoop(_, _, _)
StarsLoop(o, n, order) ==
    IF order = <<>> THEN <<>>
    ELSE LET u == Head(order)
         IN (IF u \notin DOMAIN o.Users
             THEN StarsOfNewUser(u, n.Users[u])
             ELSE StarsOfKnownUser(u, o.Users[u], n.Users[u])) \o StarsLoop(o, n, Tail(order))

RECURSIVE ReposLoop(_, _, _)
ReposLoop(o, n, order) ==
    IF order = <<>> THEN <<>>
    ELSE LET u == Head(order)
         IN (IF u \notin DOMAIN o.Users
             THEN ReposOfNewUser(u, n.Users[u])
             ELSE ReposOfKnownUser(u, o.Users[u], n.Users[u])) \o ReposLoop(o, n, Tail(order))

RECURSIVE EventsLoop(_, _, _)
EventsLoop(o, n, order) ==
    IF order = <<>> THEN <<>>
    ELSE LET u == Head(order)
         IN (IF u \notin DOMAIN o.Users
             THEN EventsOfNewUser(u, n.Users[u])
             ELSE EventsOfKnownUser(u, o.Users[u], n.Users[u])) \o EventsLoop(o, n, Tail(order))

\* Compare, the three range loops visiting the maps in orders o1, o2, o3
CompareIn(o, n, o1, o2, o3) ==
    [OldCapturedAt |-> o.CapturedAt,
     NewCapturedAt |-> n.CapturedAt,
     NewUsers |-> NewUsersOf(o, n, o1),
     GoneUsers |-> GoneUsersOf(o, n, o2),
     NewStars |-> StarsLoop(o, n, o3),
     NewRepos |-> ReposLoop(o, n, o3),
     NewEvents |-> EventsLoop(o, n, o3)]

\* mutant of IsEmpty: the users that are gone are not looked at
IsEmptyIgnoresGoneUsers(r) ==
    /\ Len(r.NewStars) = 0
    /\ Len(r.NewRepos) = 0
    /\ Len(r.NewEvents) = 0
    /\ Len(r.NewUsers) = 0

\* Result.IsEmpty
IsEmpty(r) ==
    /\ Len(r.NewStars) = 0
    /\ Len(r.NewRepos) = 0
    /\ Len(r.NewEvents) = 0
    /\ Len(r.NewUsers) = 0
    /\ Len(r.GoneUsers) = 0

\* the orders in which a range loop can visit the keys of a map
Orders(keys) ==
    {f \in [1..Cardinality(keys) -> keys] : \A k \in keys : \E i \in DOMAIN f : f[i] = k}

(***************************************************************************)
(* The snapshots handed to Compare                                         *)
(***************************************************************************)

\* the user maps with no activity
EmptyMaps ==
    {[u \in present |-> UserActivity(u, <<>>, <<>>, <<>>)] : present \in SUBSET Usernames}

\* the user maps that hold one more item than m
OneMore(m) ==
    UNION {
        {[m EXCEPT ![u].StarredRepos = Append(@, r)] : r \in RepoPool}
        \cup {[m EXCEPT ![u].OwnedRepos = Append(@, r)] : r \in RepoPool}
        \cup {[m EXCEPT ![u].Events = Append(@, e)] : e \in EventPool}
        : u \in DOMAIN m }

\* the user maps that hold exactly k items
RECURSIVE MapsOfSize(_)
MapsOfSize(k) == IF k = 0 THEN EmptyMaps ELSE UNION {OneMore(m) : m \in MapsOfSize(k - 1)}

\* the pairs of user maps Compare is applied to: all pairs that hold at most
\* MaxItems items together, and every map of at most MaxItems items with a
\* copy of itself
MapPairs ==
    UNION { MapsOfSize(ij[1]) \X MapsOfSize(ij[2]) :
              ij \in {p \in (0..MaxItems) \X (0..MaxItems) : p[1] + p[2] <= MaxItems} }
    \cup UNION { {<<m, m>> : m \in MapsOfSize(k)} : k \in 0..MaxItems }

(***************************************************************************)
(* Actions of SpecDiff                                                     *)
(***************************************************************************)

\* a Client that makes no paginated call, its cache holding c
ClientWith(c) ==
    /\ basePath = "/user/following"
    /\ items = <<>>
    /\ etagsOn = FALSE
    /\ clock = 1
    /\ cache = c
    /\ rateLimit = NoRateLimit
    /\ warned = FALSE
    /\ GetIdle
    /\ pc = "idle"
    /\ page = 0
    /\ sliceVal = <<>>
    /\ users = <<>>
    /\ resultSet = FALSE
    /\ err = NoErr
    /\ requests = <<>>
    /\ fetched = <<>>
    /\ failedAt = 0
    /\ calls = 0

ClientIdle == ClientWith(EmptyCache)

InitDiff ==
    /\ ClientIdle
    /\ \E mp \in MapPairs :
          /\ old = Snapshot(100, mp[1])
          /\ new = Snapshot(200, mp[2])
    /\ result = NoResult
    /\ compared = FALSE
    /\ FetchIdle
    /\ ProgramIdle

\* result := Compare(old, new); the caller may call it again on the same
\* snapshots
Compare ==
    /\ \E o1 \in Orders(DOMAIN new.Users), o2 \in Orders(DOMAIN old.Users),
          o3 \in Orders(DOMAIN new.Users) :
          result' = CompareIn(old, new, o1, o2, o3)
    /\ compared' = TRUE
    /\ UNCHANGED <<old, new, remoteVars, clientVars, getVars, callVars, fetchVars, programVars>>

NextDiff == Compare

SpecDiff == InitDiff /\ [][NextDiff]_vars

(***************************************************************************)
(* Claims on Compare                                                       *)
(***************************************************************************)

Range(seq) == {seq[i] : i \in DOMAIN seq}

InBoth == DOMAIN old.Users \cap DOMAIN new.Users

OnlyInNew == DOMAIN new.Users \ DOMAIN old.Users

OnlyInOld == DOMAIN old.Users \ DOMAIN new.Users

\* the entries of a sequence of changes that are tagged u, in order
TaggedWith(changes, u) == SelectSeq(changes, LAMBDA c : c.Username = u)

\* C1: Compare of a snapshot and a snapshot with the same user map (the
\* capture times differ) returns a Result for which IsEmpty is true.
C1_IdenticalSnapshotsGiveEmptyResult ==
    compared /\ old.Users = new.Users => IsEmpty(result)

C1_Witness ==
    /\ compared
    /\ old.Users = new.Users
    /\ old.CapturedAt # new.CapturedAt
    /\ DOMAIN new.Users = Usernames
    /\ new.Users["alice"].Events # <<>>
    /\ new.Users["bob"].StarredRepos # <<>>
    /\ IsEmpty(result)

\* C2: newUsers lists keys(new) - keys(old) and goneUsers lists
\* keys(old) - keys(new), each username once; the two are disjoint.
C2_NewAndGoneUsers ==
    compared =>
        /\ Range(result.NewUsers) = OnlyInNew
        /\ Len(result.NewUsers) = Cardinality(OnlyInNew)
        /\ Range(result.GoneUsers) = OnlyInOld
        /\ Len(result.GoneUsers) = Cardinality(OnlyInOld)
        /\ Range(result.NewUsers) \cap Range(result.GoneUsers) = {}

C2_Witness ==
    /\ compared
    /\ result.NewUsers = <<"bob">>
    /\ result.GoneUsers = <<"alice">>

\* C3: for a user of new that old does not have, every starred repo, owned
\* repo and event of the user is emitted, whatever old holds: the entries
\* tagged with the user are as many as the user's sequences are long.
C3_NewUserAllActivityIsNew ==
    compared =>
        \A u \in OnlyInNew :
            /\ Len(TaggedWith(result.NewStars, u)) = Len(new.Users[u].StarredRepos)
            /\ Len(TaggedWith(result.NewRepos, u)) = Len(new.Users[u].OwnedRepos)
            /\ Len(TaggedWith(result.NewEvents, u)) = Len(new.Users[u].Events)
            /\ TaggedWith(result.NewStars, u) = RepoChanges(u, new.Users[u].StarredRepos)
            /\ TaggedWith(result.NewRepos, u) = RepoChanges(u, new.Users[u].OwnedRepos)
            /\ TaggedWith(result.NewEvents, u) = EventChanges(u, new.Users[u].Events)

C3_Witness ==
    /\ compared
    /\ "bob" \in OnlyInNew
    /\ "alice" \in DOMAIN old.Users
    /\ Len(new.Users["bob"].StarredRepos) = 1
    /\ Len(new.Users["bob"].Events) = 1
    /\ Len(result.NewStars) = 1
    /\ Len(result.NewEvents) = 1

\* the identity of a repo as the claims state it: the text owner/name
OwnerSlashName(r) == r.Owner \o "/" \o r.Name

\* C4: for a user in both snapshots a starred repo of new is emitted in
\* NewStars exactly when no starred repo of old has its full name, an owned
\* repo of new is emitted in NewRepos exactly when no owned repo of old has
\* its full name, and a repo whose owner and name are those of an old one
\* is not emitted, whatever else changed.
C4_RepoIdentityIsFullName ==
    compared =>
        \A u \in InBoth :
            /\ \A r \in Range(new.Users[u].StarredRepos) :
                  /\ [Username |-> u, Repo |-> r] \in Range(result.NewStars)
                        <=> \A q \in Range(old.Users[u].StarredRepos) :
                                OwnerSlashName(q) # OwnerSlashName(r)
                  /\ (\E q \in Range(old.Users[u].StarredRepos) :
                         q.Owner = r.Owner /\ q.Name = r.Name)
                        => [Username |-> u, Repo |-> r] \notin Range(result.NewStars)
            /\ \A r \in Range(new.Users[u].OwnedRepos) :
                  /\ [Username |-> u, Repo |-> r] \in Range(result.NewRepos)
                        <=> \A q \in Range(old.Users[u].OwnedRepos) :
                                OwnerSlashName(q) # OwnerSlashName(r)
                  /\ (\E q \in Range(old.Users[u].OwnedRepos) :
                         q.Owner = r.Owner /\ q.Name = r.Name)
                        => [Username |-> u, Repo |-> r] \notin Range(result.NewRepos)

C4_Witness ==
    /\ compared
    /\ "alice" \in InBoth
    /\ Len(old.Users["alice"].StarredRepos) = 1
    /\ Len(new.Users["alice"].StarredRepos) = 1
    /\ old.Users["alice"].StarredRepos[1].Name = new.Users["alice"].StarredRepos[1].Name
    /\ old.Users["alice"].StarredRepos[1].Owner = new.Users["alice"].StarredRepos[1].Owner
    /\ old.Users["alice"].StarredRepos[1].Stars # new.Users["alice"].StarredRepos[1].Stars
    /\ result.NewStars = <<>>

\* the identity of an event as the claims state it
Tuple4(e) == <<e.Type, e.Actor, e.Repo, e.CreatedAt.sec>>

\* C5: for a user in both snapshots an event of new is emitted in NewEvents
\* exactly when its 4-tuple (type, actor, repo, createdAt to the second) is
\* the 4-tuple of no event of old.
C5_EventIdentityIsTuple ==
    compared =>
        \A u \in InBoth :
            \A e \in Range(new.Users[u].Events) :
                [Username |-> u, Event |-> e] \in Range(result.NewEvents)
                    <=> \A q \in Range(old.Users[u].Events) : Tuple4(q) # Tuple4(e)

(***************************************************************************)
(* package main: fetchActivity                                             *)
(***************************************************************************)

\* the cutoff argument, the start of the window: the calls of the model
\* are seconds apart, and no item of the remote data crosses the start of
\* the window between them
FetchCutoff == Time(1000, 0)

\* mutant of Before: a time is before itself
BeforeOrAt(t, u) == t.sec < u.sec \/ (t.sec = u.sec /\ t.nsec <= u.nsec)

\* t.Before(u)
Before(t, u) == t.sec < u.sec \/ (t.sec = u.sec /\ t.nsec < u.nsec)

\* the logins an account may follow
Logins == <<"alice", "bob", "carol">>

Reverse(q) == [k \in 1..Len(q) |-> q[Len(q) + 1 - k]]

\* the lists GetFollowedUsers may return: up to MaxFollowed logins, the
\* longest list in both orders
Followings ==
    { SubSeq(Logins, 1, k) : k \in 0..MaxFollowed }
    \cup { Reverse(SubSeq(Logins, 1, MaxFollowed)) }

\* a github.Repository of owner login
Repository(login, name, createdAt) ==
    [CreatedAt |-> createdAt, Name |-> name, FullName |-> login \o "/" \o name,
     Description |-> "about " \o name, HTMLURL |-> "https://github.com/" \o login \o "/" \o name,
     Language |-> "Go", Owner |-> [Login |-> login], StarCount |-> GoInt(7)]

\* a github.Event of actor login
GitHubEvent(login, type, createdAt) ==
    [CreatedAt |-> createdAt, ID |-> type \o "-" \o login, Type |-> type,
     Actor |-> [Login |-> login], Repo |-> [Name |-> login \o "/site"]]

\* what a repository fetch for login can return on success: nothing, or
\* one repository created after the cutoff, one just before it, one
\* exactly at it and one a second before it
RepoLists(login) ==
    { <<>>,
      << Repository(login, "fresh", Time(1001, 0)),
         Repository(login, "old", Time(999, 999999999)),
         Repository(login, "edge", Time(1000, 0)),
         Repository(login, "stale", Time(999, 0)) >> }

EventLists(login) ==
    { <<>>,
      << GitHubEvent(login, "PushEvent", Time(1001, 0)),
         GitHubEvent(login, "WatchEvent", Time(999, 999999999)),
         GitHubEvent(login, "ForkEvent", Time(1000, 0)),
         GitHubEvent(login, "IssuesEvent", Time(999, 0)) >> }

convertRepo(r) ==
    [CreatedAt |-> r.CreatedAt, Owner |-> r.Owner.Login, Name |-> r.Name,
     Description |-> r.Description, Language |-> r.Language, Stars |-> r.StarCount]

convertEvent(e) ==
    [Type |-> e.Type, Actor |-> e.Actor.Login, Repo |-> e.Repo.Name, CreatedAt |-> e.CreatedAt]

\* the loop over a fetched list: the items not created before cutoff
Kept(list, cutoff) == SelectSeq(list, LAMBDA x : ~Before(x.CreatedAt, cutoff))

KeptRepos(list, cutoff) ==
    [k \in 1..Len(Kept(list, cutoff)) |-> convertRepo(Kept(list, cutoff)[k])]

KeptEvents(list, cutoff) ==
    [k \in 1..Len(Kept(list, cutoff)) |-> convertEvent(Kept(list, cutoff)[k])]

\* the error a failing client call returns
ClientError == "rate limited"

\* fmt.Fprintf(w, "Fetching activity for %s...\n", user.Login)
FetchingLine(login) == "Fetching activity for " \o login \o "...\n"

\* fmt.Fprintf(w, "  Warning: could not fetch <category> for %s: %v\n", user.Login, err)
WarningLine(category, login, e) ==
    "  Warning: could not fetch " \o category \o " for " \o login \o ": " \o e \o "\n"

\* mutant of Warned: the warning is written in every mode
WarnedAlways(lines, line, isVerbose) == Append(lines, line)

\* if verbose { fmt.Fprintf(w, ...) }: w after a line that is written in
\* verbose mode only
Warned(lines, line, isVerbose) == IF isVerbose THEN Append(lines, line) ELSE lines

\* mutant of AfterCategory: the events are fetched before the owned repos
AfterCategoryOwnedLast(stage, hasFailed) ==
    IF stage = "starred" THEN "events"
    ELSE IF stage = "events" THEN "owned"
    ELSE "insert"

\* mutant of AfterCategory: a failed category ends the work on its user
AfterCategoryFailureSkipsUser(stage, hasFailed) ==
    IF hasFailed \/ stage = "events" THEN "insert"
    ELSE IF stage = "starred" THEN "owned" ELSE "events"

\* where fetchActivity goes after a category fetch, failed or not: to the
\* next category, and after the events to the insertion of the activity
AfterCategory(stage, hasFailed) ==
    IF stage = "starred" THEN "owned"
    ELSE IF stage = "owned" THEN "events"
    ELSE "insert"

\* mutant of Insert: a user without any kept item gets no entry
InsertUnlessEmpty(us, login, act) ==
    IF act.StarredRepos = <<>> /\ act.OwnedRepos = <<>> /\ act.Events = <<>>
    THEN us
    ELSE (login :> act) @@ us

\* snapshot.Users[user.Login] = activity
Insert(us, login, act) == (login :> act) @@ us

\* the top of the loop body for the user at position k
EnterUser(k) ==
    /\ userIdx' = k
    /\ stdout' = Warned(stdout, FetchingLine(following[k]), verbose)
    /\ activity' = UserActivity(following[k], <<>>, <<>>, <<>>)
    /\ fpc' = "starred"

\* the rest of the loop body after category stage, the local activity
\* being act and w holding lines: on to the next category, or
\* snapshot.Users[user.Login] = activity and then the next user or the
\* return
Continue(stage, hasFailed, act, lines) ==
    IF AfterCategory(stage, hasFailed) # "insert"
    THEN /\ fpc' = AfterCategory(stage, hasFailed)
         /\ activity' = act
         /\ stdout' = lines
         /\ UNCHANGED <<userIdx, snapshot>>
    ELSE /\ snapshot' = [snapshot EXCEPT !.Users = Insert(@, following[userIdx], act)]
         /\ IF userIdx < Len(following)
            THEN /\ userIdx' = userIdx + 1
                 /\ stdout' = Warned(lines, FetchingLine(following[userIdx + 1]), verbose)
                 /\ activity' = UserActivity(following[userIdx + 1], <<>>, <<>>, <<>>)
                 /\ fpc' = "starred"
            ELSE /\ fpc' = "returned"
                 /\ activity' = act
                 /\ stdout' = lines
                 /\ UNCHANGED userIdx

\* client.GetFollowedUsers, and on success NewSnapshot and the way into
\* the loop
FetchFollowed ==
    /\ fpc = "start"
    /\ clientLog' = Append(clientLog, [method |-> "GetFollowedUsers", username |-> ""])
    /\ \/ /\ fetchErr' = "fetching followed users: " \o ClientError
          /\ failed' = failed \cup {<<"", "followed users">>}
          /\ fpc' = "returned"
          /\ UNCHANGED <<userIdx, activity, snapshot, stdout>>
       \/ /\ snapshot' = Snapshot(timeNow, <<>>)
          /\ UNCHANGED <<fetchErr, failed>>
          /\ IF Len(following) = 0
             THEN /\ fpc' = "returned"
                  /\ UNCHANGED <<userIdx, activity, stdout>>
             ELSE EnterUser(1)
    /\ UNCHANGED <<verbose, following, served, remoteVars, clientVars, getVars, callVars, diffVars, programVars>>

\* client.GetStarredReposByUsername and what follows it
FetchStarred ==
    /\ fpc = "starred"
    /\ LET login == following[userIdx]
       IN /\ clientLog' = Append(clientLog, [method |-> "GetStarredReposByUsername",
                                             username |-> login])
          /\ \/ /\ failed' = failed \cup {<<login, "starred repos">>}
                /\ UNCHANGED served
                /\ Continue("starred", TRUE, activity,
                            Warned(stdout, WarningLine("starred repos", login, ClientError), verbose))
             \/ \E starred \in RepoLists(login) :
                   /\ UNCHANGED failed
                   /\ served' = (<<login, "starred repos">> :> starred) @@ served
                   /\ Continue("starred", FALSE,
                               [activity EXCEPT !.StarredRepos = @ \o KeptRepos(starred, FetchCutoff)],
                               stdout)
    /\ UNCHANGED <<verbose, following, fetchErr, remoteVars, clientVars, getVars, callVars, diffVars, programVars>>

\* client.GetOwnedReposByUsername and what follows it
FetchOwned ==
    /\ fpc = "owned"
    /\ LET login == following[userIdx]
       IN /\ clientLog' = Append(clientLog, [method |-> "GetOwnedReposByUsername",
                                             username |-> login])
          /\ \/ /\ failed' = failed \cup {<<login, "owned repos">>}
                /\ UNCHANGED served
                /\ Continue("owned", TRUE, activity,
                            Warned(stdout, WarningLine("owned repos", login, ClientError), verbose))
             \/ \E owned \in RepoLists(login) :
                   /\ UNCHANGED failed
                   /\ served' = (<<login, "owned repos">> :> owned) @@ served
                   /\ Continue("owned", FALSE,
                               [activity EXCEPT !.OwnedRepos = @ \o KeptRepos(owned, FetchCutoff)],
                               stdout)
    /\ UNCHANGED <<verbose, following, fetchErr, remoteVars, clientVars, getVars, callVars, diffVars, programVars>>

\* client.GetRecentEvents and what follows it
FetchEvents ==
    /\ fpc = "events"
    /\ LET login == following[userIdx]
       IN /\ clientLog' = Append(clientLog, [method |-> "GetRecentEvents", username |-> login])
          /\ \/ /\ failed' = failed \cup {<<login, "events">>}
                /\ UNCHANGED served
                /\ Continue("events", TRUE, activity,
                            Warned(stdout, WarningLine("events", login, ClientError), verbose))
             \/ \E events \in EventLists(login) :
                   /\ UNCHANGED failed
                   /\ served' = (<<login, "events">> :> events) @@ served
                   /\ Continue("events", FALSE,
                               [activity EXCEPT !.Events = @ \o KeptEvents(events, FetchCutoff)],
                               stdout)
    /\ UNCHANGED <<verbose, following, fetchErr, remoteVars, clientVars, getVars, callVars, diffVars, programVars>>

InitFetch ==
    /\ ClientIdle
    /\ DiffIdle
    /\ verbose \in BOOLEAN
    /\ following \in Followings
    /\ fpc = "start"
    /\ userIdx = 0
    /\ activity = NoActivity
    /\ snapshot = NoSnapshot
    /\ fetchErr = NoErr
    /\ stdout = <<>>
    /\ clientLog = <<>>
    /\ failed = {}
    /\ served = <<>>
    /\ ProgramIdle

NextFetch ==
    \/ FetchFollowed
    \/ FetchStarred
    \/ FetchOwned
    \/ FetchEvents

SpecFetch == InitFetch /\ [][NextFetch]_vars

(***************************************************************************)
(* Claims on fetchActivity                                                 *)
(***************************************************************************)

Categories == <<"starred repos", "owned repos", "events">>

\* the category of activity act named cat
CategoryOf(act, cat) ==
    IF cat = "starred repos" THEN act.StarredRepos
    ELSE IF cat = "owned repos" THEN act.OwnedRepos
    ELSE act.Events

\* the calls a complete run makes for the user login
CallsFor(login) ==
    << [method |-> "GetStarredReposByUsername", username |-> login],
       [method |-> "GetOwnedReposByUsername", username |-> login],
       [method |-> "GetRecentEvents", username |-> login] >>

\* the call for the list, then the three calls of each listed user
RECURSIVE CallsForAll(_)
CallsForAll(logins) ==
    IF logins = <<>> THEN <<>> ELSE CallsFor(Head(logins)) \o CallsForAll(Tail(logins))

FollowedFetched == <<"", "followed users">> \notin failed

\* C19: whatever set of category fetches failed, a fetchActivity whose
\* followed-users fetch succeeded returns a snapshot and no error; each
\* failed category is empty for its user; all three categories of every
\* followed user were fetched, in the order of the list, a failure
\* skipping none of those after it.
C19_CategoryFailuresNeverAbort ==
    fpc = "returned" /\ FollowedFetched =>
        /\ fetchErr = NoErr
        /\ snapshot # NoSnapshot
        /\ \A k \in 1..Len(following) :
              /\ following[k] \in DOMAIN snapshot.Users
              /\ \A c \in 1..3 :
                    <<following[k], Categories[c]>> \in failed
                       => CategoryOf(snapshot.Users[following[k]], Categories[c]) = <<>>
        /\ Tail(clientLog) = CallsForAll(following)

C19_Witness ==
    /\ fpc = "returned"
    /\ following = <<"alice", "bob">>
    /\ failed = {<<"alice", "starred repos">>, <<"alice", "events">>, <<"bob", "owned repos">>}
    /\ fetchErr = NoErr
    /\ snapshot.Users["alice"].StarredRepos = <<>>
    /\ Len(snapshot.Users["alice"].OwnedRepos) = 2
    /\ Len(snapshot.Users["bob"].StarredRepos) = 2
    /\ Len(snapshot.Users["bob"].Events) = 2
    /\ Len(clientLog) = 7

\* the lines of w that are warnings
WarningLines == SelectSeq(stdout, LAMBDA line : HasSubstring(line, "Warning"))

\* the failure of <<login, category>> is reported by a warning that names both
Reported(f) ==
    \E k \in 1..Len(WarningLines) :
        /\ HasSubstring(WarningLines[k], f[1])
        /\ HasSubstring(WarningLines[k], f[2])

SwallowedFailures == {f \in failed : f[2] # "followed users"}

NotEarlier(t, u) == t.sec > u.sec \/ (t.sec = u.sec /\ t.nsec >= u.nsec)

\* the positions of list whose item was created at the cutoff or later
KeptPositions(list) == {k \in 1..Len(list) : NotEarlier(list[k].CreatedAt, FetchCutoff)}

\* what identifies a fetched item and the item it was converted to
ItemName(x, cat) == IF cat = "events" THEN x.Type ELSE x.Name

\* kept holds the items of list at the positions ps, and no others, in the
\* order of list
IsSelection(kept, list, ps, cat) ==
    /\ Len(kept) = Cardinality(ps)
    /\ \E f \in [1..Len(kept) -> ps] :
          /\ \A a, b \in 1..Len(kept) : a < b => f[a] < f[b]
          /\ \A a \in 1..Len(kept) :
                /\ ItemName(kept[a], cat) = ItemName(list[f[a]], cat)
                /\ kept[a].CreatedAt = list[f[a]].CreatedAt

C22_SnapshotKeysAreFollowedLogins ==
    fpc = "returned" /\ FollowedFetched =>
        /\ DOMAIN snapshot.Users = Range(following)
        /\ \A u \in DOMAIN snapshot.Users : snapshot.Users[u].Username = u

C22_Witness ==
    /\ fpc = "returned"
    /\ following = <<"alice", "bob">>
    /\ {f \in failed : f[1] = "alice"} = {<<"alice", Categories[c]>> : c \in 1..3}
    /\ \A c \in 1..3 : <<"bob", Categories[c]>> \in DOMAIN served
    /\ \A c \in 1..3 : served[<<"bob", Categories[c]>>] = <<>>
    /\ DOMAIN snapshot.Users = {"alice", "bob"}
    /\ snapshot.Users["alice"] = UserActivity("alice", <<>>, <<>>, <<>>)
    /\ snapshot.Users["bob"] = UserActivity("bob", <<>>, <<>>, <<>>)

\* the calls one fetchActivity makes when nothing stops it, in order
Schedule == <<[method |-> "GetFollowedUsers", username |-> ""]>> \o CallsForAll(following)

\* the number of calls that have returned when fetchActivity is at fpc
CallsReturned ==
    IF fpc = "start" THEN 0
    ELSE IF fpc = "returned" THEN (IF FollowedFetched THEN Len(Schedule) ELSE 1)
    ELSE 1 + 3 * (userIdx - 1)
           + (IF fpc = "starred" THEN 0 ELSE IF fpc = "owned" THEN 1 ELSE 2)

\* C33: at every point of a fetchActivity call the client calls made so far
\* are the first calls of its schedule, each made once: the followed-users
\* fetch, then for each user of the list in list order the starred, the
\* owned and the events fetch; a call is made only when the one before it
\* has returned, so the calls made are as many as fetchActivity's position
\* says
C33_OneCallAtATimeInListOrder ==
    /\ fpc \in {"start", "starred", "owned", "events", "returned"}
    /\ Len(clientLog) = CallsReturned
    /\ Len(clientLog) <= Len(Schedule)
    /\ clientLog = SubSeq(Schedule, 1, Len(clientLog))
    /\ fpc \in {"starred", "owned", "events"} =>
          /\ userIdx \in 1..Len(following)
          /\ Schedule[Len(clientLog) + 1].username = following[userIdx]

\* two users are followed; the three fetches of the first are done, the
\* second of them failed, and the owned repos of the second user are next
C33_Witness ==
    /\ following = <<"bob", "alice">>
    /\ fpc = "owned"
    /\ userIdx = 2
    /\ failed = {<<"bob", "owned repos">>}
    /\ Len(clientLog) = 5
    /\ clientLog[5] = [method |-> "GetStarredReposByUsername", username |-> "alice"]

(***************************************************************************)
(* Claims on the purity of Compare and on Result.IsEmpty                   *)
(***************************************************************************)

\* the part of a sequence of changes that belongs to one user
ChangesOf(changes, u) == SelectSeq(changes, LAMBDA c : c.Username = u)

\* two Results that differ at most in the order in which users were visited
SameUpToVisitingOrder(r1, r2) ==
    /\ r1.OldCapturedAt = r2.OldCapturedAt
    /\ r1.NewCapturedAt = r2.NewCapturedAt
    /\ Range(r1.NewUsers) = Range(r2.NewUsers)
    /\ Len(r1.NewUsers) = Len(r2.NewUsers)
    /\ Range(r1.GoneUsers) = Range(r2.GoneUsers)
    /\ Len(r1.GoneUsers) = Len(r2.GoneUsers)
    /\ \A u \in Usernames :
          /\ ChangesOf(r1.NewStars, u) = ChangesOf(r2.NewStars, u)
          /\ ChangesOf(r1.NewRepos, u) = ChangesOf(r2.NewRepos, u)
          /\ ChangesOf(r1.NewEvents, u) = ChangesOf(r2.NewEvents, u)
    /\ Len(r1.NewStars) = Len(r2.NewStars)
    /\ Len(r1.NewRepos) = Len(r2.NewRepos)
    /\ Len(r1.NewEvents) = Len(r2.NewEvents)

\* the Result of a call is built from the two snapshots alone
BuiltFrom(r, o, n) ==
    \A o1 \in Orders(DOMAIN n.Users), o2 \in Orders(DOMAIN o.Users),
       o3 \in Orders(DOMAIN n.Users) :
       SameUpToVisitingOrder(r, CompareIn(o, n, o1, o2, o3))

\* C27: every call of Compare, the first and the repeated ones, leaves both
\* snapshots as they were (user maps, sequences and timestamps) and returns
\* a Result built from the two snapshots alone, nothing of an earlier Result
\* in it, that is the same as the Result of every other visiting order of
\* the user maps up to the order in which the users appear
C27_CompareIsPure ==
    [][/\ old' = old
       /\ new' = new
       /\ BuiltFrom(result', old, new)]_vars

\* Compare was called on snapshots with two new users that have items, and
\* returned them in the other order than an earlier call could
C27_Witness ==
    /\ compared
    /\ result.NewUsers = <<"bob", "alice">>
    /\ Len(result.NewStars) + Len(result.NewRepos) + Len(result.NewEvents) = 2
    /\ \E r \in Range(result.NewStars) \cup Range(result.NewRepos) \cup Range(result.NewEvents) :
          r.Username = "alice"
    /\ \E r \in Range(result.NewStars) \cup Range(result.NewRepos) \cup Range(result.NewEvents) :
          r.Username = "bob"

\* the timestamps a Result can carry
CapturedAts == {0, 100, 200}

\* C28: IsEmpty is true exactly when the five collections NewStars,
\* NewRepos, NewEvents, NewUsers and GoneUsers are all empty, and gives the
\* same answer whatever the two timestamps of the Result are
C28_IsEmptyIffFiveCollectionsEmpty ==
    compared =>
        /\ IsEmpty(result) <=>
              /\ result.NewStars = <<>>
              /\ result.NewRepos = <<>>
              /\ result.NewEvents = <<>>
              /\ result.NewUsers = <<>>
              /\ result.GoneUsers = <<>>
        /\ \A t1 \in CapturedAts, t2 \in CapturedAts :
              IsEmpty([result EXCEPT !.OldCapturedAt = t1, !.NewCapturedAt = t2])
                  = IsEmpty(result)

\* a Result whose only content is a user that is gone is not empty
C28_Witness ==
    /\ compared
    /\ result.NewStars = <<>>
    /\ result.NewRepos = <<>>
    /\ result.NewEvents = <<>>
    /\ result.NewUsers = <<>>
    /\ result.GoneUsers = <<"alice">>
    /\ ~IsEmpty(result)

(***************************************************************************)
(* package main: snapshotToStorage and storageToSnapshot, over             *)
(* encoding/json                                                           *)
(***************************************************************************)

snapshotUserID == "followed_users"

activityDataKey == "snapshot_data"

\* a JSON text, as the tree of its values; an object lists its members in
\* the order of the text
JNull == [json |-> "null"]

JString(str) == [json |-> "string", val |-> str]

JNumber(n) == [json |-> "number", val |-> n]

JArray(elems) == [json |-> "array", val |-> elems]

JObject(members) == [json |-> "object", val |-> members]

Member(key, value) == [key |-> key, value |-> value]

\* the values json.Unmarshal stores in an interface{}: nil, string,
\* float64, []interface{} and map[string]interface{}
AnyNil == [any |-> "nil"]

AnyString(str) == [any |-> "string", val |-> str]

AnyFloat64(f) == [any |-> "float64", val |-> f]

AnySlice(elems) == [any |-> "slice", val |-> elems]

AnyMap(m) == [any |-> "map", val |-> m]

\* the nine digits of the nanoseconds, the zeros at the end dropped
RECURSIVE TrimZeros(_)
TrimZeros(str) ==
    IF Len(str) > 0 /\ SubSeq(str, Len(str), Len(str)) = "0"
    THEN TrimZeros(SubSeq(str, 1, Len(str) - 1))
    ELSE str

RECURSIVE PadLeft(_, _)
PadLeft(str, width) == IF Len(str) >= width THEN str ELSE PadLeft("0" \o str, width)

RECURSIVE PadRight(_, _)
PadRight(str, width) == IF Len(str) >= width THEN str ELSE PadRight(str \o "0", width)

\* Time.MarshalJSON, layout RFC3339Nano: the seconds and, when it is not
\* zero, the fraction without its trailing zeros
FormatRFC3339Nano(t) ==
    ToString(t.sec)
        \o (IF t.nsec = 0 THEN "" ELSE "." \o TrimZeros(PadLeft(ToString(t.nsec), 9)))
        \o "Z"

\* the position of the first "." of str, 0 when it has none
RECURSIVE DotAt(_, _)
DotAt(str, k) ==
    IF k > Len(str) THEN 0
    ELSE IF SubSeq(str, k, k) = "." THEN k ELSE DotAt(str, k + 1)

\* Time.UnmarshalJSON: the time an RFC 3339 text names
ParseRFC3339(str) ==
    LET body == SubSeq(str, 1, Len(str) - 1)
        dot == DotAt(body, 1)
    IN  IF dot = 0
        THEN Time(ParseDigits(body, 0), 0)
        ELSE Time(ParseDigits(SubSeq(body, 1, dot - 1), 0),
                  ParseDigits(PadRight(SubSeq(body, dot + 1, Len(body)), 9), 0))

\* the times of the model, and the two conversions over them computed once
ModelSeconds == {0, 10, 11, 100, 200, 999, 1000, 1001} \cup {FetchNow + k : k \in 0..MaxRuns}

ModelTimes == {Time(sec, nsec) : sec \in ModelSeconds, nsec \in {0, 500000000, 999999999}}

RFC3339NanoOf == [t \in ModelTimes |-> FormatRFC3339Nano(t)]

ParseRFC3339Of == [str \in {RFC3339NanoOf[t] : t \in ModelTimes} |-> ParseRFC3339(str)]

\* the snapshots of the model carry CapturedAt in whole seconds
MarshalTime(t) == JString(RFC3339NanoOf[t])

\* the spacing of the float64 values around a number of high limb hi:
\* 53 bits of mantissa hold every integer below 2^53 = 2^23 * 2^30
RECURSIVE UlpOf(_, _)
UlpOf(hi, ulp) == IF hi < (2^23) * ulp THEN ulp ELSE UlpOf(hi, 2 * ulp)

\* strconv.ParseFloat(text, 64) of an integer literal: the nearest float64,
\* ties to the even mantissa
Float64(n) ==
    LET ulp == UlpOf(n.hi, 1)
        q == n.lo \div ulp
        r == n.lo % ulp
        lo == IF 2 * r < ulp THEN q * ulp
              ELSE IF 2 * r > ulp THEN (q + 1) * ulp
              ELSE IF q % 2 = 0 THEN q * ulp ELSE (q + 1) * ulp
    IN  IF lo = Limb THEN WideInt(n.hi + 1, 0) ELSE WideInt(n.hi, lo)

\* json.Marshal of a []Repo or []Event: null for the nil slice (the slices
\* of a snapshot are nil when they are empty), else the array
MarshalSlice(elems) == IF elems = <<>> THEN JNull ELSE JArray(elems)

MarshalRepo(r) ==
    JObject(<< Member("CreatedAt", MarshalTime(r.CreatedAt)),
               Member("Owner", JString(r.Owner)),
               Member("Name", JString(r.Name)),
               Member("Description", JString(r.Description)),
               Member("Language", JString(r.Language)),
               Member("Stars", JNumber(r.Stars)) >>)

MarshalEvent(e) ==
    JObject(<< Member("CreatedAt", MarshalTime(e.CreatedAt)),
               Member("Type", JString(e.Type)),
               Member("Actor", JString(e.Actor)),
               Member("Repo", JString(e.Repo)) >>)

MarshalUserActivity(a) ==
    JObject(<< Member("Username", JString(a.Username)),
               Member("StarredRepos",
                      MarshalSlice([k \in 1..Len(a.StarredRepos) |-> MarshalRepo(a.StarredRepos[k])])),
               Member("OwnedRepos",
                      MarshalSlice([k \in 1..Len(a.OwnedRepos) |-> MarshalRepo(a.OwnedRepos[k])])),
               Member("Events",
                      MarshalSlice([k \in 1..Len(a.Events) |-> MarshalEvent(a.Events[k])])) >>)

\* the keys of the maps the model marshals, in the order of their bytes
MemberOrder ==
    << "Actor", "CapturedAt", "CreatedAt", "Description", "Events", "Language", "Name",
       "OwnedRepos", "Owner", "Repo", "StarredRepos", "Stars", "Type", "Username", "Users",
       "alice", "bob", "carol", "snapshot_data" >>

\* the keys of a map in the order json.Marshal writes them: sorted
SortedKeys(keys) == SelectSeq(MemberOrder, LAMBDA k : k \in keys)

\* json.Marshal(s) of a diff.Snapshot
MarshalSnapshot(snap) ==
    JObject(<< Member("CapturedAt", MarshalTime(Time(snap.CapturedAt, 0))),
               Member("Users",
                      JObject([k \in 1..Len(SortedKeys(DOMAIN snap.Users)) |->
                                 Member(SortedKeys(DOMAIN snap.Users)[k],
                                        MarshalUserActivity(snap.Users[SortedKeys(DOMAIN snap.Users)[k]]))])) >>)

\* the value of the last member named key
ValueOf(members, key) ==
    LET at == {k \in 1..Len(members) : members[k].key = key}
    IN  members[CHOOSE k \in at : \A j \in at : j <= k].value

KeysOf(members) == {members[k].key : k \in 1..Len(members)}

\* json.Unmarshal(data, &v) for v an interface{} or a map[string]interface{}
RECURSIVE UnmarshalAny(_)
UnmarshalAny(j) ==
    IF j.json = "null" THEN AnyNil
    ELSE IF j.json = "string" THEN AnyString(j.val)
    ELSE IF j.json = "number" THEN AnyFloat64(Float64(j.val))
    ELSE IF j.json = "array" THEN AnySlice([k \in 1..Len(j.val) |-> UnmarshalAny(j.val[k])])
    ELSE AnyMap([key \in KeysOf(j.val) |-> UnmarshalAny(ValueOf(j.val, key))])

\* json.Marshal of an interface{}: the members of a map sorted by key, a
\* float64 that is an integer below 1e21 as its digits
RECURSIVE MarshalAny(_)
MarshalAny(v) ==
    IF v.any = "nil" THEN JNull
    ELSE IF v.any = "string" THEN JString(v.val)
    ELSE IF v.any = "float64" THEN JNumber(v.val)
    ELSE IF v.any = "slice" THEN JArray([k \in 1..Len(v.val) |-> MarshalAny(v.val[k])])
    ELSE LET keys == SortedKeys(DOMAIN v.val)
         IN  JObject([k \in 1..Len(keys) |-> Member(keys[k], MarshalAny(v.val[keys[k]]))])

\* json.Unmarshal into the fields of a struct: an absent or null member
\* leaves the zero value
Has(j, key) == j.json = "object" /\ key \in KeysOf(j.val) /\ ValueOf(j.val, key).json # "null"

StringField(j, key) == IF Has(j, key) THEN ValueOf(j.val, key).val ELSE ""

IntField(j, key) == IF Has(j, key) THEN ValueOf(j.val, key).val ELSE GoInt(0)

TimeField(j, key) == IF Has(j, key) THEN ParseRFC3339Of[ValueOf(j.val, key).val] ELSE Time(0, 0)

SliceField(j, key) == IF Has(j, key) THEN ValueOf(j.val, key).val ELSE <<>>

UnmarshalRepo(j) ==
    [CreatedAt |-> TimeField(j, "CreatedAt"), Owner |-> StringField(j, "Owner"),
     Name |-> StringField(j, "Name"), Description |-> StringField(j, "Description"),
     Language |-> StringField(j, "Language"), Stars |-> IntField(j, "Stars")]

UnmarshalEvent(j) ==
    [Type |-> StringField(j, "Type"), Actor |-> StringField(j, "Actor"),
     Repo |-> StringField(j, "Repo"), CreatedAt |-> TimeField(j, "CreatedAt")]

UnmarshalUserActivity(j) ==
    UserActivity(StringField(j, "Username"),
                 [k \in 1..Len(SliceField(j, "StarredRepos")) |->
                    UnmarshalRepo(SliceField(j, "StarredRepos")[k])],
                 [k \in 1..Len(SliceField(j, "OwnedRepos")) |->
                    UnmarshalRepo(SliceField(j, "OwnedRepos")[k])],
                 [k \in 1..Len(SliceField(j, "Events")) |->
                    UnmarshalEvent(SliceField(j, "Events")[k])])

\* json.Unmarshal(data, &snapshot) for a diff.Snapshot (a number met here
\* is an integer below 2^61 and fits the int it is decoded into)
UnmarshalSnapshot(j) ==
    LET usersMembers == IF Has(j, "Users") THEN ValueOf(j.val, "Users").val ELSE <<>>
    IN  Snapshot(TimeField(j, "CapturedAt").sec,
                 [u \in KeysOf(usersMembers) |-> UnmarshalUserActivity(ValueOf(usersMembers, u))])

\* snapshotToStorage
snapshotToStorage(snap) ==
    [UserID |-> snapshotUserID,
     Timestamp |-> snap.CapturedAt,
     Activity |-> (activityDataKey :> UnmarshalAny(MarshalSnapshot(snap)))]

\* storageToSnapshot
storageToSnapshot(ss) ==
    IF activityDataKey \notin DOMAIN ss.Activity
    THEN Snapshot(ss.Timestamp, <<>>)
    ELSE UnmarshalSnapshot(MarshalAny(ss.Activity[activityDataKey]))

(***************************************************************************)
(* SpecRoundTrip: a snapshot converted to the document of the store and    *)
(* back                                                                    *)
(***************************************************************************)

\* 2^53 + 1, the first integer that is no float64 value
FirstInexact == WideInt(2^23, 1)

\* what a user of a snapshot can hold: nothing; one starred repo; two
\* starred repos, an owned one and two events a fraction of a second
\* apart; an owned repo with FirstInexact stars; one event
Activities(u) ==
    LET xy == [Owner |-> "x", Name |-> "y", Stars |-> GoInt(1), Description |-> "d",
               Language |-> "Go", CreatedAt |-> Time(10, 0)]
        xb == [Owner |-> "x", Name |-> "b", Stars |-> GoInt(7), Description |-> "",
               Language |-> "Rust", CreatedAt |-> Time(11, 999999999)]
        big == [Owner |-> u, Name |-> "big", Stars |-> FirstInexact, Description |-> "d",
                Language |-> "Go", CreatedAt |-> Time(1001, 0)]
        push == [Type |-> "PushEvent", Actor |-> u, Repo |-> "x/y", CreatedAt |-> Time(10, 0)]
        later == [Type |-> "PushEvent", Actor |-> u, Repo |-> "x/y",
                  CreatedAt |-> Time(10, 500000000)]
    IN  { UserActivity(u, <<>>, <<>>, <<>>),
          UserActivity(u, <<xy>>, <<>>, <<>>),
          UserActivity(u, <<xb, xy>>, <<xy>>, <<later, push>>),
          UserActivity(u, <<>>, <<big>>, <<>>),
          UserActivity(u, <<>>, <<>>, <<later>>) }

\* the snapshots handed to snapshotToStorage
Originals ==
    { Snapshot(at, us) :
        at \in {100, FetchNow},
        us \in UNION { {m \in [present -> UNION {Activities(u) : u \in Usernames}] :
                          \A u \in present : m[u].Username = u}
                       : present \in SUBSET Usernames } }

\* stored, err := snapshotToStorage(original)
SnapshotToStorage ==
    /\ original # NoSnapshot
    /\ storedDoc = NoDoc
    /\ storedDoc' = snapshotToStorage(original)
    /\ UNCHANGED <<original, restored, convErr, runVars, concVars, spinVars>>
    /\ UNCHANGED <<remoteVars, clientVars, getVars, callVars, diffVars, fetchVars>>

\* restored, err := storageToSnapshot(stored)
StorageToSnapshot ==
    /\ storedDoc # NoDoc
    /\ restored = NoSnapshot
    /\ restored' = storageToSnapshot(storedDoc)
    /\ UNCHANGED <<original, storedDoc, convErr, runVars, concVars, spinVars>>
    /\ UNCHANGED <<remoteVars, clientVars, getVars, callVars, diffVars, fetchVars>>

InitRoundTrip ==
    /\ ClientIdle
    /\ DiffIdle
    /\ FetchIdle
    /\ original \in Originals
    /\ storedDoc = NoDoc
    /\ restored = NoSnapshot
    /\ convErr = NoErr
    /\ RunIdle
    /\ ConcIdle
    /\ SpinIdle

NextRoundTrip ==
    \/ SnapshotToStorage
    \/ StorageToSnapshot

SpecRoundTrip == InitRoundTrip /\ [][NextRoundTrip]_vars

(***************************************************************************)
(* Claims on the round trip                                                *)
(***************************************************************************)

\* C24: the snapshot storageToSnapshot returns for the document of
\* snapshotToStorage has the keys of the original and, under each key, its
\* username and its starred, owned and event sequences, item for item
C24_RoundTripKeepsUsers ==
    restored # NoSnapshot =>
        /\ convErr = NoErr
        /\ DOMAIN restored.Users = DOMAIN original.Users
        /\ \A u \in DOMAIN original.Users :
              /\ restored.Users[u].Username = original.Users[u].Username
              /\ restored.Users[u].StarredRepos = original.Users[u].StarredRepos
              /\ restored.Users[u].OwnedRepos = original.Users[u].OwnedRepos
              /\ restored.Users[u].Events = original.Users[u].Events

(***************************************************************************)
(* package main: run                                                       *)
(***************************************************************************)

\* the flags of the model: --version; --sync-lookback-days in and out of
\* range; --offline; --since; the token of --token or of GITHUB_TOKEN
Sinces == {"", "1d", "1970-01-02", "soon"}

Configs ==
    [Version : {FALSE}, Days : {30}, Offline : BOOLEAN, Since : Sinces,
     Token : {"", "ghp_token"}, NoNotify : {FALSE}, NoOpen : {FALSE}]
    \cup { [NoConfig EXCEPT !.Version = TRUE, !.Days = 30],
           [NoConfig EXCEPT !.Days = 0, !.Token = "ghp_token"],
           [NoConfig EXCEPT !.Days = 366, !.Token = "ghp_token"] }

\* parseFlags: the error it returns, NoErr for nil
parseFlags(c) ==
    IF c.Version THEN "version"
    ELSE IF c.Days < 1 \/ c.Days > 365 THEN "days must be between 1 and 365"
    ELSE NoErr

SecondsPerDay == 86400

\* the dates time.Parse reads with one of the five layouts
AbsoluteDates == [str \in {"1970-01-02"} |-> SecondsPerDay]

\* the days a relative date goes back, 0 when the text is no relative
\* date (a month is taken as 30 days and a year as 365)
RelativeDays(dateStr) ==
    IF Len(dateStr) < 2 THEN 0
    ELSE LET unit == SubSeq(dateStr, Len(dateStr), Len(dateStr))
             value == Atoi(SubSeq(dateStr, 1, Len(dateStr) - 1))
         IN  IF ~value.ok \/ value.val <= 0 THEN 0
             ELSE IF unit = "d" THEN value.val
             ELSE IF unit = "w" THEN value.val * 7
             ELSE IF unit = "m" THEN value.val * 30
             ELSE IF unit = "y" THEN value.val * 365
             ELSE 0

RelativeDaysOf == [str \in Sinces |-> RelativeDays(str)]

\* parseSinceDate
parseSinceDate(dateStr, t) ==
    IF dateStr = "" THEN [ok |-> FALSE, val |-> 0]
    ELSE IF RelativeDaysOf[dateStr] > 0
    THEN [ok |-> TRUE, val |-> t - RelativeDaysOf[dateStr] * SecondsPerDay]
    ELSE IF dateStr \in DOMAIN AbsoluteDates
    THEN [ok |-> TRUE, val |-> AbsoluteDates[dateStr]]
    ELSE [ok |-> FALSE, val |-> 0]

\* ORDER BY timestamp DESC
RECURSIVE ByTimestampDesc(_)
ByTimestampDesc(rows) ==
    IF rows = {} THEN <<>>
    ELSE LET top == CHOOSE r \in rows : \A q \in rows : q.Timestamp <= r.Timestamp
         IN  <<top>> \o ByTimestampDesc(rows \ {top})

\* Store.GetByUser
GetByUser(rows, userID, limit) ==
    LET found == ByTimestampDesc({rows[k] : k \in {j \in 1..Len(rows) : rows[j].UserID = userID}})
    IN  SubSeq(found, 1, IF Len(found) < limit THEN Len(found) ELSE limit)

\* Store.GetByTimeRange
GetByTimeRange(rows, userID, start, end) ==
    ByTimestampDesc({rows[k] : k \in {j \in 1..Len(rows) :
                                        /\ rows[j].UserID = userID
                                        /\ rows[j].Timestamp >= start
                                        /\ rows[j].Timestamp <= end}})

\* Store.Save and the scan of the row: the activity as JSON text, and back
Saved(ss) ==
    [ss EXCEPT !.Activity = UnmarshalAny(MarshalAny(AnyMap(ss.Activity))).val]

\* mutant of saveSnapshot: the row holds the time and no user
saveSnapshotWithoutUsers(snap, t) ==
    Saved([snapshotToStorage(Snapshot(snap.CapturedAt, <<>>)) EXCEPT !.Timestamp = t])

\* saveSnapshot: the row it inserts
saveSnapshot(snap, t) == Saved([snapshotToStorage(snap) EXCEPT !.Timestamp = t])

\* loadPreviousSnapshot
loadPreviousSnapshot(rows) ==
    IF GetByUser(rows, snapshotUserID, 1) = <<>>
    THEN Snapshot(0, <<>>)
    ELSE storageToSnapshot(GetByUser(rows, snapshotUserID, 1)[1])

\* filterResultBySinceDate: the stars, repos and events not created
\* before sinceDate
filterResultBySinceDate(r, sinceDate) ==
    [r EXCEPT
       !.NewStars = SelectSeq(@, LAMBDA c : ~Before(c.Repo.CreatedAt, Time(sinceDate, 0))),
       !.NewRepos = SelectSeq(@, LAMBDA c : ~Before(c.Repo.CreatedAt, Time(sinceDate, 0))),
       !.NewEvents = SelectSeq(@, LAMBDA c : ~Before(c.Event.CreatedAt, Time(sinceDate, 0)))]

\* the snapshot of the "since" date, when the store has one
SinceSnapshots(rows, c, t) ==
    GetByTimeRange(rows, snapshotUserID,
                   parseSinceDate(c.Since, t).val - SecondsPerDay,
                   parseSinceDate(c.Since, t).val + SecondsPerDay)

\* mutant of Mode: --since is not looked at
ModeIgnoresSince(c) == IF c.Offline THEN "offline" ELSE "normal"

\* mutant of Mode: --offline is not looked at
ModeIgnoresOffline(c) == IF c.Since # "" THEN "historical" ELSE "normal"

\* the branch run takes: historical with cfg.Since, reading the current
\* snapshot from the store when cfg.Offline; else standalone offline; else
\* normal
Mode(c) ==
    IF c.Since # "" THEN (IF c.Offline THEN "historical offline" ELSE "historical")
    ELSE IF c.Offline THEN "offline"
    ELSE "normal"

\* mutant of FetchFailed: the error of fetchActivity is not looked at
FetchFailedIgnored(e) == FALSE

\* if err != nil after fetchActivity
FetchFailed(e) == e # NoErr

\* what run does up to the point where it fetches, compares or returns:
\* exit with a code, fetch with the client it made, or compare prev and
\* cur; fx are the calls of the store and of the client factory made on
\* the way. fault is the call that fails: "open" the StoreFactory, "query"
\* a query of the store
BeforeFetch(c, fault, rows, t) ==
    LET exit(code, fx) ==
            [next |-> "exit", code |-> code, prev |-> NoSnapshot, cur |-> NoSnapshot, fx |-> fx]
        fetch(fx) ==
            [next |-> "fetch", code |-> NoExit, prev |-> NoSnapshot, cur |-> NoSnapshot,
             fx |-> Append(fx, "GitHubClientFactory")]
        compare(prev, cur, fx) ==
            [next |-> "compare", code |-> NoExit, prev |-> prev, cur |-> cur, fx |-> fx]
        recent == GetByUser(rows, snapshotUserID, 1)
        ranged == <<"Store.GetByTimeRange">>
        both == <<"Store.GetByTimeRange", "Store.GetByUser">>
    IN  IF parseFlags(c) = "version" THEN exit(0, <<>>)
        ELSE IF parseFlags(c) # NoErr THEN exit(1, <<>>)
        ELSE IF fault = "open" THEN exit(1, <<>>)
        ELSE IF Mode(c) \in {"historical", "historical offline"}
        THEN IF ~parseSinceDate(c.Since, t).ok THEN exit(1, <<>>)
             ELSE IF fault = "query" THEN exit(1, ranged)
             ELSE IF SinceSnapshots(rows, c, t) = <<>> THEN exit(1, ranged)
             ELSE IF Mode(c) = "historical offline"
             THEN IF recent = <<>> THEN exit(1, both)
                  ELSE compare(storageToSnapshot(SinceSnapshots(rows, c, t)[1]),
                               storageToSnapshot(recent[1]), both)
             ELSE IF c.Token = "" THEN exit(1, ranged)
             ELSE fetch(ranged)
        ELSE IF Mode(c) = "offline"
        THEN IF fault = "query" THEN exit(1, <<"Store.GetByUser">>)
             ELSE IF recent = <<>> THEN exit(1, <<"Store.GetByUser">>)
             ELSE compare(Snapshot(0, <<>>), storageToSnapshot(recent[1]), <<"Store.GetByUser">>)
        ELSE IF c.Token = "" THEN exit(1, <<>>)
        ELSE fetch(<<>>)

\* the items a report shows as new, each as <<login, category, identity>>
ItemsOf(rep) ==
    {<<rep.NewStars[k].Username, "starred repos", FullName(rep.NewStars[k].Repo)>> :
        k \in 1..Len(rep.NewStars)}
    \cup {<<rep.NewRepos[k].Username, "owned repos", FullName(rep.NewRepos[k].Repo)>> :
            k \in 1..Len(rep.NewRepos)}
    \cup {<<rep.NewEvents[k].Username, "events", eventKey(rep.NewEvents[k].Event)>> :
            k \in 1..Len(rep.NewEvents)}

\* the record of which run reported what, after run number n wrote rep
Recorded(by, rep, n) ==
    [item \in DOMAIN by \cup ItemsOf(rep) |->
        (IF item \in DOMAIN by THEN by[item] ELSE {})
            \cup (IF item \in ItemsOf(rep) THEN {n} ELSE {})]

NormalMode(c) == parseFlags(c) = NoErr /\ Mode(c) = "normal"

\* return code, the calls made and the report written going on record
ReturnOf(c, code, fx, rep, n) ==
    /\ rpc' = "exited"
    /\ exitCode' = code
    /\ effects' = fx
    /\ report' = rep
    /\ reportedBy' = Recorded(reportedBy, rep, n)
    /\ allNormal' = (allNormal /\ NormalMode(c) /\ code = 0)

Exit(c, code, fx, rep, n) ==
    /\ ReturnOf(c, code, fx, rep, n)
    /\ UNCHANGED unreported

\* return 1 after an error of the report generator, of os.Create or of
\* Generate: the diff res is written nowhere
ExitWithoutReport(c, fx, res, n) ==
    /\ ReturnOf(c, 1, fx, NoResult, n)
    /\ unreported' = IF NormalMode(c) THEN [run |-> n, items |-> ItemsOf(res)] ELSE unreported

\* the end of run, from diff.Compare on: the filter of historical mode,
\* the return when nothing is new, the report, the notification and the
\* browser. fault "generator" is deps.ReportGenerator failing, "create"
\* os.Create and "generate" Generate
CompareAndReport(c, prev, cur, fx, t, n) ==
    \E o1 \in Orders(DOMAIN cur.Users), o2 \in Orders(DOMAIN prev.Users),
       o3 \in Orders(DOMAIN cur.Users) :
       LET compared0 == CompareIn(prev, cur, o1, o2, o3)
           filtered == IF c.Since # ""
                       THEN filterResultBySinceDate(compared0,
                                                    parseSinceDate(c.Since, t).val)
                       ELSE compared0
       IN  /\ old' = prev
           /\ new' = cur
           /\ result' = compared0
           /\ compared' = TRUE
           /\ IF IsEmpty(filtered) THEN Exit(c, 0, fx, NoResult, n)
              ELSE \E fault \in {"none", "generator", "create", "generate"} :
                 IF fault = "generator"
                 THEN ExitWithoutReport(c, Append(fx, "ReportGenerator"), filtered, n)
                 ELSE IF fault = "create"
                 THEN ExitWithoutReport(c, fx \o <<"ReportGenerator", "os.Create">>, filtered, n)
                 ELSE IF fault = "generate"
                 THEN ExitWithoutReport(c, fx \o <<"ReportGenerator", "os.Create", "Generate">>,
                                        filtered, n)
                 ELSE Exit(c, 0,
                           fx \o <<"ReportGenerator", "os.Create", "Generate">>
                              \o (IF c.NoNotify THEN <<>> ELSE <<"Send">>)
                              \o (IF c.NoOpen THEN <<>> ELSE <<"OpenBrowser">>),
                           filtered, n)

\* run is called: everything up to the call of fetchActivity, or, when it
\* does not fetch, up to its return
RunStart ==
    /\ rpc \in {"idle", "exited"}
    /\ runs < MaxRuns
    /\ runs' = runs + 1
    /\ timeNow' = timeNow + 1
    /\ \E c \in Configs, fault \in {"none", "open", "query"} :
          LET o == BeforeFetch(c, fault, store, timeNow + 1)
          IN  /\ cfg' = c
              /\ IF o.next = "exit"
                 THEN /\ Exit(c, o.code, o.fx, NoResult, runs + 1)
                      /\ fpc' = "idle"
                      /\ old' = NoSnapshot
                      /\ new' = NoSnapshot
                      /\ result' = NoResult
                      /\ compared' = FALSE
                 ELSE IF o.next = "compare"
                 THEN /\ CompareAndReport(c, o.prev, o.cur, o.fx, timeNow + 1, runs + 1)
                      /\ fpc' = "idle"
                 ELSE /\ rpc' = "fetching"
                      /\ exitCode' = NoExit
                      /\ effects' = o.fx
                      /\ report' = NoResult
                      /\ fpc' = "start"
                      /\ old' = NoSnapshot
                      /\ new' = NoSnapshot
                      /\ result' = NoResult
                      /\ compared' = FALSE
                      /\ UNCHANGED <<reportedBy, unreported, allNormal>>
    /\ userIdx' = 0
    /\ activity' = NoActivity
    /\ snapshot' = NoSnapshot
    /\ fetchErr' = NoErr
    /\ stdout' = <<>>
    /\ clientLog' = <<>>
    /\ failed' = {}
    /\ served' = <<>>
    /\ UNCHANGED <<verbose, following, remote, store, convVars, concVars, spinVars,
                   remoteVars, clientVars, getVars, callVars>>

\* mutant of StoreAtLoad: the snapshot is saved before the previous one is
\* loaded
StoreAtLoadAfterSave(rows, saved) == Append(rows, saved)

\* the rows loadPreviousSnapshot queries in normal mode: it is called
\* before saveSnapshot, so the row of this run is not among them
StoreAtLoad(rows, saved) == rows

\* fetchActivity has returned: the rest of run. fault "load" is the query
\* of loadPreviousSnapshot failing, "save" Store.Save
RunFinish ==
    /\ rpc = "fetching"
    /\ fpc = "returned"
    /\ IF FetchFailed(fetchErr)
       THEN /\ Exit(cfg, 1, effects, NoResult, runs)
            /\ UNCHANGED <<store, diffVars>>
       ELSE IF Mode(cfg) = "historical"
       THEN /\ CompareAndReport(cfg, storageToSnapshot(SinceSnapshots(store, cfg, timeNow)[1]),
                                snapshot, effects, timeNow, runs)
            /\ UNCHANGED store
       ELSE \E fault \in {"none", "load", "save"} :
          IF fault = "load"
          THEN /\ Exit(cfg, 1, Append(effects, "Store.GetByUser"), NoResult, runs)
               /\ UNCHANGED <<store, diffVars>>
          ELSE IF fault = "save"
          THEN /\ Exit(cfg, 1, effects \o <<"Store.GetByUser", "Store.Save">>, NoResult, runs)
               /\ UNCHANGED <<store, diffVars>>
          ELSE /\ store' = Append(store, saveSnapshot(snapshot, timeNow))
               /\ CompareAndReport(cfg,
                                   loadPreviousSnapshot(
                                       StoreAtLoad(store, saveSnapshot(snapshot, timeNow))),
                                   snapshot,
                                   effects \o <<"Store.GetByUser", "Store.Save">>,
                                   timeNow, runs)
    /\ UNCHANGED <<timeNow, remote, runs, cfg, fetchVars, convVars, concVars, spinVars,
                   remoteVars, clientVars, getVars, callVars>>

\* the client of a run answers from the remote data
Serves == \A key \in DOMAIN served' : served'[key] = remote[key]

RunFetchFollowed == rpc = "fetching" /\ FetchFollowed

RunFetchStarred == rpc = "fetching" /\ FetchStarred /\ Serves

RunFetchOwned == rpc = "fetching" /\ FetchOwned /\ Serves

RunFetchEvents == rpc = "fetching" /\ FetchEvents /\ Serves

\* the remote data of the runs: one followed user with events, with or
\* without starred repos, and no repos of their own
Remotes ==
    { (<<"alice", "starred repos">> :> st) @@ (<<"alice", "owned repos">> :> <<>>)
        @@ (<<"alice", "events">> :> ev) :
        st \in RepoLists("alice"), ev \in EventLists("alice") \ {<<>>} }

InitRun ==
    /\ ClientIdle
    /\ DiffIdle
    /\ ConvIdle
    /\ SpinIdle
    /\ verbose = FALSE
    /\ following = <<"alice">>
    /\ fpc = "idle"
    /\ userIdx = 0
    /\ activity = NoActivity
    /\ snapshot = NoSnapshot
    /\ fetchErr = NoErr
    /\ stdout = <<>>
    /\ clientLog = <<>>
    /\ failed = {}
    /\ served = <<>>
    /\ timeNow = FetchNow
    /\ remote \in Remotes
    /\ store = <<>>
    /\ runs = 0
    /\ rpc = "idle"
    /\ cfg = NoConfig
    /\ exitCode = NoExit
    /\ effects = <<>>
    /\ report = NoResult
    /\ reportedBy = <<>>
    /\ unreported = NoneUnreported
    /\ allNormal = TRUE
    /\ ConcIdle

NextRun ==
    \/ RunStart
    \/ RunFetchFollowed
    \/ RunFetchStarred
    \/ RunFetchOwned
    \/ RunFetchEvents
    \/ RunFinish

SpecRun == InitRun /\ [][NextRun]_vars

(***************************************************************************)
(* Claims on run                                                           *)
(***************************************************************************)

FollowedFailed == <<"", "followed users">> \in failed

OnlyFollowedWasCalled == clientLog = <<[method |-> "GetFollowedUsers", username |-> ""]>>

\* C23: when GetFollowedUsers fails, fetchActivity returns an error and no
\* snapshot after that one call, and the normal-mode run it was made for
\* returns 1 having called no category fetch and no Store.Save (the store
\* is as it was), compared nothing and written no report
C23_FollowedFailureEndsRun ==
    [][/\ fpc' = "returned" /\ FollowedFailed' =>
            /\ fetchErr' # NoErr
            /\ snapshot' = NoSnapshot
            /\ OnlyFollowedWasCalled'
       /\ rpc' = "exited" /\ NormalMode(cfg') /\ FollowedFailed' =>
            /\ exitCode' = 1
            /\ OnlyFollowedWasCalled'
            /\ effects' = <<"GitHubClientFactory">>
            /\ store' = store
            /\ ~compared'
            /\ report' = NoResult]_vars

\* the second run on a store that holds a snapshot has ended on a failed
\* GetFollowedUsers
C23_Witness ==
    /\ rpc = "exited"
    /\ runs = 2
    /\ store # <<>>
    /\ NormalMode(cfg)
    /\ FollowedFailed
    /\ exitCode = 1

\* on the rows of the store at time t, run with --offline and no token
\* goes the way it goes with a token
TokenNotLookedAt(rows, t) ==
    \A c \in {d \in Configs : d.Offline /\ d.Token = ""}, fault \in {"none", "query"} :
        BeforeFetch(c, fault, rows, t) = BeforeFetch([c EXCEPT !.Token = "ghp_token"], fault, rows, t)

\* C26: a run with --offline, with or without --since, makes no GitHub
\* client, calls no operation of one and no Store.Save, and returns 1 when
\* the store holds no snapshot; on every store it does the same with and
\* without a token
C26_OfflineUsesTheStoreOnly ==
    /\ TokenNotLookedAt(store, timeNow + 1)
    /\ rpc = "exited" /\ cfg.Offline =>
          /\ "GitHubClientFactory" \notin Range(effects)
          /\ clientLog = <<>>
          /\ "Store.Save" \notin Range(effects)
          /\ store = <<>> => exitCode = 1

\* an offline run without a token has written a report from the snapshot
\* an earlier run saved
C26_Witness ==
    /\ rpc = "exited"
    /\ cfg.Offline
    /\ cfg.Token = ""
    /\ store # <<>>
    /\ exitCode = 0
    /\ report # NoResult
    /\ effects = <<"Store.GetByUser", "ReportGenerator", "os.Create", "Generate", "Send",
                   "OpenBrowser">>

\* the items the remote data holds inside the window, at every run
RemoteItems ==
    UNION { {<<key[1], key[2], IF key[2] = "events"
                               THEN eventKey(convertEvent(x))
                               ELSE FullName(convertRepo(x))>> :
               x \in Range(Kept(remote[key], FetchCutoff))} : key \in DOMAIN remote }

\* C30: as long as every run was a normal-mode run that returned 0, an
\* item the remote data holds all along has been reported as new by at
\* most one run
C30_ReportedAtMostOnce ==
    allNormal =>
        \A item \in DOMAIN reportedBy \cap RemoteItems : Cardinality(reportedBy[item]) <= 1

\* the place of call x among the calls made, 0 when it was not made
PlaceOf(x, fx) ==
    IF x \in Range(fx) THEN CHOOSE k \in 1..Len(fx) : fx[k] = x ELSE 0

\* a normal-mode run has got as far as diff.Compare
NormalRunCompared == rpc = "exited" /\ NormalMode(cfg) /\ compared

\* the rows the store held when the run that has just saved began
RowsBefore == SubSeq(store, 1, Len(store) - 1)

\* C31: a normal-mode run that reaches Compare has queried the store before
\* it saved; Compare got as previous the most recent snapshot the store
\* held before this run's save (the empty snapshot when it held none) and
\* as current the snapshot just fetched, never the snapshot this run saved
\* as previous; on an empty store every user of the current snapshot is
\* in NewUsers
C31_PreviousIsLoadedBeforeSave ==
    NormalRunCompared =>
        /\ 0 < PlaceOf("Store.GetByUser", effects)
        /\ PlaceOf("Store.GetByUser", effects) < PlaceOf("Store.Save", effects)
        /\ store # <<>>
        /\ store[Len(store)] = saveSnapshot(snapshot, timeNow)
        /\ new = snapshot
        /\ old = (IF RowsBefore = <<>> THEN Snapshot(0, <<>>)
                  ELSE storageToSnapshot(RowsBefore[Len(RowsBefore)]))
        /\ old.CapturedAt < new.CapturedAt
        /\ RowsBefore = <<>> =>
              /\ Range(result.NewUsers) = DOMAIN snapshot.Users
              /\ Range(result.NewUsers) = Range(following)
              /\ exitCode = 0 => report.NewUsers = result.NewUsers

\* the second normal-mode run on one store compared against the snapshot
\* the first run saved, and found nothing new
C31_Witness ==
    /\ NormalRunCompared
    /\ runs = 2
    /\ Len(store) = 2
    /\ old = storageToSnapshot(store[1])
    /\ old.Users # <<>>
    /\ exitCode = 0
    /\ report = NoResult

\* the normal-mode run that has just returned failed to write its report
ReportFailed == rpc = "exited" /\ NormalMode(cfg) /\ unreported.run = runs

\* a normal-mode run has returned, and the run before it was a normal-mode
\* run that failed to write its report
RunAfterReportFailed == rpc = "exited" /\ NormalMode(cfg) /\ unreported.run = runs - 1

\* C32: a normal-mode run whose report generator, report file or report
\* generation fails returns 1 and writes no report, having saved the
\* current snapshot before (the store's last row is that snapshot); the
\* normal-mode run that follows reports none of the items the failed run
\* had found
C32_SavedBeforeReported ==
    /\ ReportFailed =>
          /\ exitCode = 1
          /\ report = NoResult
          /\ 0 < PlaceOf("Store.Save", effects)
          /\ PlaceOf("Store.Save", effects) < PlaceOf("ReportGenerator", effects)
          /\ store # <<>>
          /\ storageToSnapshot(store[Len(store)]) = snapshot
          /\ \A item \in unreported.items \cap DOMAIN reportedBy : runs \notin reportedBy[item]
    /\ RunAfterReportFailed =>
          /\ unreported.items \cap ItemsOf(report) = {}
          /\ \A item \in unreported.items \cap DOMAIN reportedBy : runs \notin reportedBy[item]

\* Generate failed in the first run, which had found items that are still
\* in the remote data; the second run fetched them all again, returned 0
\* and reported nothing
C32_Witness ==
    /\ RunAfterReportFailed
    /\ runs = 2
    /\ unreported.items # {}
    /\ unreported.items \subseteq RemoteItems
    /\ failed = {}
    /\ exitCode = 0
    /\ report = NoResult
    /\ DOMAIN reportedBy = {}

\* C39: a run with --since, whether it fetches the current snapshot or
\* reads it from the store, leaves the rows of the store as they were at
\* every step and has not called Store.Save when it returns
C39_HistoricalNeverSaves ==
    [][cfg'.Since # "" =>
          /\ store' = store
          /\ "Store.Save" \notin Range(effects')]_vars

\* a run with --since has fetched the current snapshot from the API and
\* compared it with the one an earlier run stored: the diff holds items,
\* and the store still holds that one row
C39_Witness ==
    /\ rpc = "exited"
    /\ cfg.Since # ""
    /\ ~cfg.Offline
    /\ effects = <<"Store.GetByTimeRange", "GitHubClientFactory">>
    /\ compared
    /\ ~IsEmpty(result)
    /\ exitCode = 0
    /\ Len(store) = 1

(***************************************************************************)
(* Claims on what Compare emits                                            *)
(***************************************************************************)

\* the repos of list that qualify as new for user u: all of them when old
\* does not have u, else those whose full name is that of no repo of was
NewAmong(u, list, was) ==
    SelectSeq(list, LAMBDA r : u \notin DOMAIN old.Users
                               \/ \A k \in 1..Len(was) : FullName(was[k]) # FullName(r))

\* the same for events, by their key
NewEventsAmong(u, list, was) ==
    SelectSeq(list, LAMBDA e : u \notin DOMAIN old.Users
                               \/ \A k \in 1..Len(was) : eventKey(was[k]) # eventKey(e))

\* the activity old holds for u, empty when it holds none
OldActivityOf(u) ==
    IF u \in DOMAIN old.Users THEN old.Users[u] ELSE UserActivity(u, <<>>, <<>>, <<>>)

NewStarsDue(u) ==
    RepoChanges(u, NewAmong(u, new.Users[u].StarredRepos, OldActivityOf(u).StarredRepos))

NewReposDue(u) ==
    RepoChanges(u, NewAmong(u, new.Users[u].OwnedRepos, OldActivityOf(u).OwnedRepos))

NewEventsDue(u) ==
    EventChanges(u, NewEventsAmong(u, new.Users[u].Events, OldActivityOf(u).Events))

RECURSIVE InUserOrder(_, _)
\* the entries due(u) of the users of order, one user after the other
InUserOrder(due(_), order) ==
    IF order = <<>> THEN <<>> ELSE due(Head(order)) \o InUserOrder(due, Tail(order))

\* C37: for each user of new the entries of NewStars tagged with it are the
\* starred repos of the user in new that qualify as new, in their order
\* and as often as they occur; likewise NewRepos and NewEvents; and each of
\* the three lists is these per-user runs put one after the other in one
\* order of the users, which is all that can differ between two calls
C37_EmittedInOrderWithMultiplicity ==
    compared =>
        /\ \A u \in DOMAIN new.Users :
              /\ TaggedWith(result.NewStars, u) = NewStarsDue(u)
              /\ TaggedWith(result.NewRepos, u) = NewReposDue(u)
              /\ TaggedWith(result.NewEvents, u) = NewEventsDue(u)
        /\ \E order \in Orders(DOMAIN new.Users) :
              /\ result.NewStars = InUserOrder(NewStarsDue, order)
              /\ result.NewRepos = InUserOrder(NewReposDue, order)
              /\ result.NewEvents = InUserOrder(NewEventsDue, order)

\* alice is in both snapshots and has starred one new repo twice: it is
\* emitted twice
C37_Witness ==
    /\ compared
    /\ "alice" \in InBoth
    /\ Len(new.Users["alice"].StarredRepos) = 2
    /\ new.Users["alice"].StarredRepos[1] = new.Users["alice"].StarredRepos[2]
    /\ Len(result.NewStars) = 2
    /\ result.NewStars[1] = result.NewStars[2]

\* C38: every entry of NewStars, NewRepos and NewEvents is tagged with a
\* user of new and carries an item of that user's sequence of the same
\* category in new; an item that only old holds is in no entry; a user that
\* only old holds is in GoneUsers, once, and neither in NewUsers nor in the
\* tag of any entry
C38_AdditionsOnly ==
    compared =>
        /\ \A c \in Range(result.NewStars) :
              /\ c.Username \in DOMAIN new.Users
              /\ c.Repo \in Range(new.Users[c.Username].StarredRepos)
        /\ \A c \in Range(result.NewRepos) :
              /\ c.Username \in DOMAIN new.Users
              /\ c.Repo \in Range(new.Users[c.Username].OwnedRepos)
        /\ \A c \in Range(result.NewEvents) :
              /\ c.Username \in DOMAIN new.Users
              /\ c.Event \in Range(new.Users[c.Username].Events)
        /\ \A u \in InBoth :
              /\ \A r \in Range(old.Users[u].StarredRepos) \ Range(new.Users[u].StarredRepos) :
                    [Username |-> u, Repo |-> r] \notin Range(result.NewStars)
              /\ \A r \in Range(old.Users[u].OwnedRepos) \ Range(new.Users[u].OwnedRepos) :
                    [Username |-> u, Repo |-> r] \notin Range(result.NewRepos)
              /\ \A e \in Range(old.Users[u].Events) \ Range(new.Users[u].Events) :
                    [Username |-> u, Event |-> e] \notin Range(result.NewEvents)
        /\ \A u \in OnlyInOld :
              /\ Len(SelectSeq(result.GoneUsers, LAMBDA g : g = u)) = 1
              /\ u \notin Range(result.NewUsers)
              /\ TaggedWith(result.NewStars, u) = <<>>
              /\ TaggedWith(result.NewRepos, u) = <<>>
              /\ TaggedWith(result.NewEvents, u) = <<>>

\* bob, with a starred repo, is in old only; alice is in both and has lost
\* her owned repo: bob is gone and nothing else is reported
C38_Witness ==
    /\ compared
    /\ OnlyInOld = {"bob"}
    /\ InBoth = {"alice"}
    /\ old.Users["bob"].StarredRepos # <<>>
    /\ old.Users["alice"].OwnedRepos # <<>>
    /\ new.Users["alice"].OwnedRepos = <<>>
    /\ result.GoneUsers = <<"bob">>
    /\ result.NewStars = <<>>
    /\ result.NewRepos = <<>>
    /\ result.NewEvents = <<>>
    /\ result.NewUsers = <<>>

(***************************************************************************)
(* package github: one Client called from several goroutines               *)
(***************************************************************************)

Threads == 1..MaxThreads

\* mutant of CanRLock: a reader gets in while the lock is held for writing
CanRLockDuringWrite(mu) == TRUE

\* RWMutex.RLock returns when no goroutine holds the lock for writing
CanRLock(mu) == mu.writer = 0

\* RWMutex.Lock returns when no goroutine holds the lock at all
CanLock(mu) == mu.writer = 0 /\ mu.readers = {}

\* the calls a goroutine makes, and where each starts
ConcPath == "/user/following"

Calls ==
    { [method |-> "get", path |-> ConcPath],
      [method |-> "ClearCache", path |-> ""],
      [method |-> "GetRateLimit", path |-> ""] }

FirstPosition(c) ==
    IF c.method = "get" THEN "RLock"
    ELSE IF c.method = "ClearCache" THEN "Lock"
    ELSE "rlRLock"

NoLocals ==
    [cached |-> NoEntry, resp |-> TransportFailure, ret |-> Nil, err |-> NoErr, val |-> <<>>,
     atDo |-> NoEntry]

\* the 2xx response the remote has for the request of goroutine t: its own
\* validator, body and quota headers; number 0 is the response of a fetch
\* made before the goroutines started
QuotaOf == <<HighHeaders, LowHeaders, ExhaustedHeaders>>

FreshResponse(t) ==
    [status |-> 200, etag |-> "v" \o ToString(t), body |-> JSONArray(<<t>>),
     rl |-> QuotaOf[((t - 1) % 3) + 1]]

FreshResponseOf == [t \in 0..MaxThreads |-> FreshResponse(t)]

\* the entry that earlier fetch left for the path, and the cache the
\* goroutines find: empty, or holding that entry
EarlierEntry ==
    [etag |-> FreshResponseOf[0].etag, data |-> FreshResponseOf[0].body, timestamp |-> 0,
     present |-> TRUE]

EarlierCaches == {EmptyCache, (ConcPath :> EarlierEntry)}

\* what the remote may answer to goroutine t that sent If-None-Match inm
ConcResponses(t, inm) ==
    {FreshResponseOf[t],
     [status |-> 403, etag |-> "", body |-> TextBody("forbidden"), rl |-> NoHeaders],
     TransportFailure}
    \cup (IF inm # ""
          THEN {[status |-> 304, etag |-> inm, body |-> TextBody(""), rl |-> NoHeaders]}
          ELSE {})

\* the entry goroutine u is writing into the map
EntryOf(u) ==
    [etag |-> locals[u].resp.etag, data |-> locals[u].resp.body, timestamp |-> clock,
     present |-> TRUE]

\* what c.cache[path] can yield for goroutine t: the entry of the map and,
\* when another goroutine is inside its write of the map at that moment (a
\* data race), also a value that is part old entry and part new
Seen(t) ==
    LET cur == Lookup(cache, call[t].path)
        racing == {u \in Threads \ {t} : tpc[u] = "storing" /\ call[u].path = call[t].path}
    IN  {cur} \cup UNION { { [EntryOf(u) EXCEPT !.data = cur.data],
                             [EntryOf(u) EXCEPT !.etag = cur.etag] } : u \in racing }

At(t, pos) == tpc[t] = pos

Goto(t, pos) == tpc' = [tpc EXCEPT ![t] = pos]

ConcFrame ==
    UNCHANGED <<call, remoteVars, getVars, callVars, diffVars, fetchVars, convVars, runVars, spinVars>>

\* c.cacheMu.RLock()
CacheRLock(t) ==
    /\ At(t, "RLock")
    /\ CanRLock(cacheMu)
    /\ cacheMu' = [cacheMu EXCEPT !.readers = @ \cup {t}]
    /\ Goto(t, "lookup")
    /\ UNCHANGED <<cache, rateLimit, warned, rateLimitMu, locals, storeLog>>
    /\ ConcFrame

\* cached := c.cache[path]
CacheLookup(t) ==
    /\ At(t, "lookup")
    /\ \E e \in Seen(t) : locals' = [locals EXCEPT ![t].cached = e]
    /\ Goto(t, "RUnlock")
    /\ UNCHANGED <<cache, rateLimit, warned, cacheMu, rateLimitMu, storeLog>>
    /\ ConcFrame

\* c.cacheMu.RUnlock()
CacheRUnlock(t) ==
    /\ At(t, "RUnlock")
    /\ cacheMu' = [cacheMu EXCEPT !.readers = @ \ {t}]
    /\ Goto(t, "Do")
    /\ UNCHANGED <<cache, rateLimit, warned, rateLimitMu, locals, storeLog>>
    /\ ConcFrame

\* resp, err := c.httpClient.Do(req), and the tests of parseRateLimitHeaders
\* up to if rl.Limit > 0
Do(t) ==
    /\ At(t, "Do")
    /\ \E resp \in ConcResponses(t, IF locals[t].cached.present THEN locals[t].cached.etag ELSE "") :
          IF resp = TransportFailure
          THEN /\ locals' = [locals EXCEPT ![t].resp = resp, ![t].err = "executing request"]
               /\ Goto(t, "done")
          ELSE /\ locals' = [locals EXCEPT ![t].resp = resp,
                                            ![t].atDo = Lookup(cache, call[t].path)]
               /\ Goto(t, IF ParsedHeaders(resp.rl).Limit > 0 THEN "rlLock" ELSE "status")
    /\ UNCHANGED <<cache, rateLimit, warned, cacheMu, rateLimitMu, storeLog>>
    /\ ConcFrame

\* c.rateLimitMu.Lock()
QuotaLock(t) ==
    /\ At(t, "rlLock")
    /\ CanLock(rateLimitMu)
    /\ rateLimitMu' = [rateLimitMu EXCEPT !.writer = t]
    /\ Goto(t, "rlStore")
    /\ UNCHANGED <<cache, rateLimit, warned, cacheMu, locals, storeLog>>
    /\ ConcFrame

\* c.rateLimit = rl
QuotaStore(t) ==
    /\ At(t, "rlStore")
    /\ rateLimit' = parseRateLimitHeaders(rateLimit, locals[t].resp.rl)
    /\ Goto(t, "rlUnlock")
    /\ UNCHANGED <<cache, warned, cacheMu, rateLimitMu, locals, storeLog>>
    /\ ConcFrame

\* c.rateLimitMu.Unlock(), and the warning
QuotaUnlock(t) ==
    /\ At(t, "rlUnlock")
    /\ rateLimitMu' = [rateLimitMu EXCEPT !.writer = 0]
    /\ warned' = WarnsLow(locals[t].resp.rl)
    /\ Goto(t, "status")
    /\ UNCHANGED <<cache, rateLimit, cacheMu, locals, storeLog>>
    /\ ConcFrame

\* mutant of CachedAtStatus: the map is looked up again after the response
CachedAtStatusFromMap(local, c, path) == Lookup(c, path)

\* the entry get tests and decodes after the response: its local cached,
\* read from the map before the request was sent
CachedAtStatus(local, c, path) == local

\* the tests of the status: the 304 served from cached, the API error, and
\* the 2xx that is stored when it has a validator
Status(t) ==
    /\ At(t, "status")
    /\ LET resp == locals[t].resp
           cached == CachedAtStatus(locals[t].cached, cache, call[t].path)
       IN  IF resp.status = 304 /\ cached.present
           THEN LET d == Unmarshal(NotModifiedBody(cached, resp))
                IN  /\ locals' = [locals EXCEPT
                                    ![t].val = d.val,
                                    ![t].err = IF d.ok THEN NoErr ELSE "decoding cached response"]
                    /\ Goto(t, "done")
           ELSE IF resp.status < 200 \/ resp.status >= 300
           THEN /\ locals' = [locals EXCEPT ![t].err = APIError(resp.status, resp.body)]
                /\ Goto(t, "done")
           ELSE /\ UNCHANGED locals
                /\ Goto(t, IF resp.etag # "" THEN "Lock" ELSE "decode")
    /\ UNCHANGED <<cache, rateLimit, warned, cacheMu, rateLimitMu, storeLog>>
    /\ ConcFrame

\* c.cacheMu.Lock(), in get and in ClearCache
CacheLock(t) ==
    /\ At(t, "Lock")
    /\ CanLock(cacheMu)
    /\ cacheMu' = [cacheMu EXCEPT !.writer = t]
    /\ Goto(t, IF call[t].method = "ClearCache" THEN "clear" ELSE "store")
    /\ UNCHANGED <<cache, rateLimit, warned, rateLimitMu, locals, storeLog>>
    /\ ConcFrame

\* c.cache[path] = &cacheEntry{...}: the write of the map begins
CacheStoreBegin(t) ==
    /\ At(t, "store")
    /\ Goto(t, "storing")
    /\ UNCHANGED <<cache, rateLimit, warned, cacheMu, rateLimitMu, locals, storeLog>>
    /\ ConcFrame

\* the write of the map is done
CacheStoreEnd(t) ==
    /\ At(t, "storing")
    /\ cache' = Store(cache, call[t].path, locals[t].resp.etag, locals[t].resp.body, clock)
    /\ storeLog' = Append(storeLog, [by |-> t, path |-> call[t].path, entry |-> EntryOf(t)])
    /\ Goto(t, "Unlock")
    /\ UNCHANGED <<rateLimit, warned, cacheMu, rateLimitMu, locals>>
    /\ ConcFrame

\* c.cache = make(map[string]*cacheEntry)
CacheClear(t) ==
    /\ At(t, "clear")
    /\ cache' = EmptyCache
    /\ storeLog' = Append(storeLog, [by |-> t, path |-> "", entry |-> NoEntry])
    /\ Goto(t, "Unlock")
    /\ UNCHANGED <<rateLimit, warned, cacheMu, rateLimitMu, locals>>
    /\ ConcFrame

\* c.cacheMu.Unlock()
CacheUnlock(t) ==
    /\ At(t, "Unlock")
    /\ cacheMu' = [cacheMu EXCEPT !.writer = 0]
    /\ Goto(t, IF call[t].method = "ClearCache" THEN "done" ELSE "decode")
    /\ UNCHANGED <<cache, rateLimit, warned, rateLimitMu, locals, storeLog>>
    /\ ConcFrame

\* json.Unmarshal(body, result) and the return
Decode(t) ==
    /\ At(t, "decode")
    /\ LET d == Unmarshal(locals[t].resp.body)
       IN  locals' = [locals EXCEPT ![t].val = d.val,
                                    ![t].err = IF d.ok THEN NoErr ELSE "decoding response"]
    /\ Goto(t, "done")
    /\ UNCHANGED <<cache, rateLimit, warned, cacheMu, rateLimitMu, storeLog>>
    /\ ConcFrame

\* GetRateLimit: c.rateLimitMu.RLock()
QuotaRLock(t) ==
    /\ At(t, "rlRLock")
    /\ CanRLock(rateLimitMu)
    /\ rateLimitMu' = [rateLimitMu EXCEPT !.readers = @ \cup {t}]
    /\ Goto(t, "rlRead")
    /\ UNCHANGED <<cache, rateLimit, warned, cacheMu, locals, storeLog>>
    /\ ConcFrame

\* the nil test and rl := *c.rateLimit
QuotaRead(t) ==
    /\ At(t, "rlRead")
    /\ locals' = [locals EXCEPT ![t].ret = GetRateLimit(rateLimit)]
    /\ Goto(t, "rlRUnlock")
    /\ UNCHANGED <<cache, rateLimit, warned, cacheMu, rateLimitMu, storeLog>>
    /\ ConcFrame

\* the deferred c.rateLimitMu.RUnlock()
QuotaRUnlock(t) ==
    /\ At(t, "rlRUnlock")
    /\ rateLimitMu' = [rateLimitMu EXCEPT !.readers = @ \ {t}]
    /\ Goto(t, "done")
    /\ UNCHANGED <<cache, rateLimit, warned, cacheMu, locals, storeLog>>
    /\ ConcFrame

InitConc ==
    /\ \E c \in EarlierCaches :
          /\ ClientWith(c)
          /\ storeLog = IF c = EmptyCache THEN <<>>
                        ELSE <<[by |-> 0, path |-> ConcPath, entry |-> EarlierEntry]>>
    /\ DiffIdle
    /\ FetchIdle
    /\ ConvIdle
    /\ RunIdle
    /\ SpinIdle
    /\ cacheMu = Unlocked
    /\ rateLimitMu = Unlocked
    /\ call \in [Threads -> Calls]
    /\ tpc = [t \in Threads |-> FirstPosition(call[t])]
    /\ locals = [t \in Threads |-> NoLocals]

NextConc ==
    \E t \in Threads :
        \/ CacheRLock(t)
        \/ CacheLookup(t)
        \/ CacheRUnlock(t)
        \/ Do(t)
        \/ QuotaLock(t)
        \/ QuotaStore(t)
        \/ QuotaUnlock(t)
        \/ Status(t)
        \/ CacheLock(t)
        \/ CacheStoreBegin(t)
        \/ CacheStoreEnd(t)
        \/ CacheClear(t)
        \/ CacheUnlock(t)
        \/ Decode(t)
        \/ QuotaRLock(t)
        \/ QuotaRead(t)
        \/ QuotaRUnlock(t)

SpecConc == InitConc /\ [][NextConc]_vars

(***************************************************************************)
(* Claims on one Client under concurrent calls                             *)
(***************************************************************************)

\* goroutine t is at an access of the cache map, or of the quota value
ReadsCache(t) == tpc[t] = "lookup"

WritesCache(t) == tpc[t] \in {"store", "storing", "clear"}

ReadsQuota(t) == tpc[t] = "rlRead"

WritesQuota(t) == tpc[t] = "rlStore"

\* a lock held for writing is held by nobody else
Exclusive(mu) == mu.writer # 0 => mu.readers = {}

\* the entry, or the quota record, is that of one response
OfOneResponse(e) ==
    e.present => \E u \in 0..MaxThreads :
                    /\ e.etag = FreshResponseOf[u].etag
                    /\ e.data = FreshResponseOf[u].body

QuotaOfOneResponse(q) ==
    \E u \in Threads :
        q = [f \in {"Limit", "Remaining", "Used", "Reset"} |-> ParsedHeaders(FreshResponseOf[u].rl)[f]]

\* the cache the writes of storeLog leave when made one after another
AfterWrites(log) ==
    IF log = <<>> THEN EmptyCache
    ELSE LET last == log[Len(log)]
         IN  IF last.path = "" THEN EmptyCache
             ELSE (last.path :> last.entry)

\* C25: under every interleaving of get, ClearCache and GetRateLimit calls
\* on one client, each read and write of the cache map is made holding the
\* cache lock and each read and write of the quota value holding the quota
\* lock; every entry and every quota value observed is the (body,
\* validator) pair or the quota record of one single response; and the
\* cache is what the write made last left, so that of several 2xx
\* responses to one path the entry of the one stored last remains
C25_LockedAndLastStoreWins ==
    /\ Exclusive(cacheMu)
    /\ Exclusive(rateLimitMu)
    /\ \A t \in Threads :
          /\ ReadsCache(t) => t \in cacheMu.readers
          /\ WritesCache(t) => cacheMu.writer = t
          /\ ReadsQuota(t) => t \in rateLimitMu.readers
          /\ WritesQuota(t) => rateLimitMu.writer = t
          /\ OfOneResponse(locals[t].cached)
          /\ locals[t].ret # Nil => QuotaOfOneResponse(locals[t].ret)
    /\ OfOneResponse(Lookup(cache, ConcPath))
    /\ rateLimit.set => QuotaOfOneResponse(GetRateLimit(rateLimit))
    /\ cache = AfterWrites(storeLog)

\* two get calls to one path ran at once, both got a 2xx response and both
\* stored it, the second while the first was still to decode its body
C25_Witness ==
    /\ Len(storeLog) = 2
    /\ storeLog[1].by # 0
    /\ storeLog[1].by # storeLog[2].by
    /\ storeLog[1].path = ConcPath
    /\ storeLog[2].path = ConcPath
    /\ \A t \in Threads : locals[t].resp.status = 200
    /\ tpc[storeLog[1].by] = "decode"
    /\ tpc[storeLog[2].by] = "done"
    /\ Lookup(cache, ConcPath).etag = FreshResponseOf[storeLog[2].by].etag

\* goroutine t has returned from a get that was answered 304
Served304(t) ==
    /\ tpc[t] = "done"
    /\ call[t].method = "get"
    /\ locals[t].resp.status = 304

\* C36: a get that is answered 304 returns without error the decoded body
\* of the response whose validator it sent in If-None-Match, whatever
\* other goroutines have written to the cache or cleared from it between
\* its lookup and its response
C36_NotModifiedServesTheEntryLookedUp ==
    \A t \in Threads :
        Served304(t) =>
            /\ locals[t].cached.present
            /\ locals[t].resp.etag = locals[t].cached.etag
            /\ locals[t].err = NoErr
            /\ \E u \in 0..MaxThreads :
                  /\ FreshResponseOf[u].etag = locals[t].resp.etag
                  /\ locals[t].val = FreshResponseOf[u].body.val

\* a get sent the validator of the earlier entry; when its 304 arrived
\* another goroutine had put its own response at the path; the get
\* returned the earlier body
C36_Witness ==
    \E t \in Threads :
        /\ Served304(t)
        /\ locals[t].cached = EarlierEntry
        /\ locals[t].atDo.present
        /\ locals[t].atDo.etag # EarlierEntry.etag
        /\ locals[t].val = <<0>>
        /\ locals[t].err = NoErr

\* the same with ClearCache: the cache was empty when the 304 arrived
C36_WitnessCleared ==
    \E t \in Threads :
        /\ Served304(t)
        /\ locals[t].cached = EarlierEntry
        /\ ~locals[t].atDo.present
        /\ locals[t].val = <<0>>

(***************************************************************************)
(* package progress: Spinner                                               *)
(***************************************************************************)

\* the frames of NewSpinner, ten glyphs written here by their index
frames == <<"f0", "f1", "f2", "f3", "f4", "f5", "f6", "f7", "f8", "f9">>

\* the messages the callers pass to Start, to Update and to StopWithMessage
StartMessages == {"First", "Second"}

UpdateMessages == {"Loading"}

FinalMessages == {"", "Done"}

RECURSIVE Repeat(_, _)
\* strings.Repeat
Repeat(str, n) == IF n <= 0 THEN "" ELSE str \o Repeat(str, n - 1)

\* fmt.Fprintf(s.w, "%s\n", message)
Line(m) == m \o "\n"

\* fmt.Fprintf(s.w, "\r%s\r", strings.Repeat(" ", len(s.message)+4))
ClearLine(m) == "\r" \o Repeat(" ", Len(m) + 4) \o "\r"

\* fmt.Fprintf(s.w, "\r%s %s", s.frames[frame], msg)
FrameLine(frame, m) == "\r" \o frames[frame + 1] \o " " \o m

\* close(ch): a close of the nil channel or of a closed channel panics
Closed(cl, ch) == IF ch = 0 THEN cl ELSE [cl EXCEPT ![ch] = @ + 1]

ClosePanics(cl, ch) == ch = 0 \/ cl[ch] >= 1

\* mutant of Inactive: Stop and StopWithMessage never take the early return
InactiveNever(a) == FALSE

\* if !s.active, the test of Stop and of StopWithMessage
Inactive(a) == ~a

Called(op, m) ==
    /\ ~panicked
    /\ Len(history) < MaxSpinnerCalls
    /\ history' = Append(history, [op |-> op, message |-> m])

SpinFrame ==
    UNCHANGED <<remoteVars, clientVars, getVars, callVars, diffVars, fetchVars, convVars, runVars,
                concVars, isTTY>>

\* Spinner.Start
Start(m) ==
    /\ Called("Start", m)
    /\ IF active
       THEN UNCHANGED <<active, message, done, w, closes, spinning>>
       ELSE /\ message' = m
            /\ active' = TRUE
            /\ closes' = Append(closes, 0)
            /\ done' = Len(closes) + 1
            /\ IF isTTY
               THEN /\ spinning' = (spinning @@ ((Len(closes) + 1) :> [frame |-> 0, ch |-> 0]))
                    /\ UNCHANGED w
               ELSE /\ w' = Append(w, Line(m))
                    /\ UNCHANGED spinning
    /\ UNCHANGED <<ticks, panicked>>
    /\ SpinFrame

\* Spinner.Update
Update(m) ==
    /\ Called("Update", m)
    /\ message' = m
    /\ w' = IF ~isTTY /\ active THEN Append(w, Line(m)) ELSE w
    /\ UNCHANGED <<active, done, closes, spinning, ticks, panicked>>
    /\ SpinFrame

\* Spinner.Stop
Stop ==
    /\ Called("Stop", "")
    /\ IF Inactive(active)
       THEN UNCHANGED <<active, closes, w, panicked>>
       ELSE /\ active' = FALSE
            /\ closes' = Closed(closes, done)
            /\ panicked' = ClosePanics(closes, done)
            /\ w' = IF ~ClosePanics(closes, done) /\ isTTY
                    THEN Append(w, ClearLine(message))
                    ELSE w
    /\ UNCHANGED <<message, done, spinning, ticks>>
    /\ SpinFrame

\* Spinner.StopWithMessage
StopWithMessage(m) ==
    /\ Called("StopWithMessage", m)
    /\ LET final == IF m # "" THEN <<Line(m)>> ELSE <<>>
       IN  IF Inactive(active)
           THEN /\ w' = w \o final
                /\ UNCHANGED <<active, closes, panicked>>
           ELSE /\ active' = FALSE
                /\ closes' = Closed(closes, done)
                /\ panicked' = ClosePanics(closes, done)
                /\ w' = IF ClosePanics(closes, done) THEN w
                        ELSE w \o (IF isTTY THEN <<ClearLine(message)>> ELSE <<>>) \o final
    /\ UNCHANGED <<message, done, spinning, ticks>>
    /\ SpinFrame

\* spin, entering the select: the goroutine started by activation g
\* evaluates s.done. The field is read without the mutex at each turn of the
\* loop, so what it gets is the channel of the moment: its own activation's
\* or the one a later Start has put there
SpinSelect(g) ==
    /\ ~panicked
    /\ g \in DOMAIN spinning
    /\ spinning[g].ch = 0
    /\ spinning' = [spinning EXCEPT ![g].ch = done]
    /\ UNCHANGED <<active, message, done, w, closes, ticks, panicked, history>>
    /\ SpinFrame

\* spin, case <-ticker.C: the goroutine writes a frame with the message of
\* the moment and goes round the loop
SpinTick(g) ==
    /\ ~panicked
    /\ g \in DOMAIN spinning
    /\ spinning[g].ch # 0
    /\ ticks < MaxTicks
    /\ ticks' = ticks + 1
    /\ w' = Append(w, FrameLine(spinning[g].frame, message))
    /\ spinning' = [spinning EXCEPT ![g] = [frame |-> (@.frame + 1) % Len(frames), ch |-> 0]]
    /\ UNCHANGED <<active, message, done, closes, panicked, history>>
    /\ SpinFrame

\* spin, case <-s.done: the channel the select waits on has been closed
SpinReturn(g) ==
    /\ ~panicked
    /\ g \in DOMAIN spinning
    /\ spinning[g].ch # 0
    /\ closes[spinning[g].ch] >= 1
    /\ spinning' = [h \in DOMAIN spinning \ {g} |-> spinning[h]]
    /\ UNCHANGED <<active, message, done, w, closes, ticks, panicked, history>>
    /\ SpinFrame

InitSpinner ==
    /\ ClientIdle
    /\ DiffIdle
    /\ FetchIdle
    /\ ConvIdle
    /\ RunIdle
    /\ ConcIdle
    /\ active = FALSE
    /\ message = ""
    /\ done = 0
    /\ isTTY \in BOOLEAN
    /\ w = <<>>
    /\ closes = <<>>
    /\ spinning = <<>>
    /\ ticks = 0
    /\ panicked = FALSE
    /\ history = <<>>

NextSpinner ==
    \/ \E m \in StartMessages : Start(m)
    \/ \E m \in UpdateMessages : Update(m)
    \/ Stop
    \/ \E m \in FinalMessages : StopWithMessage(m)
    \/ \E g \in 1..MaxSpinnerCalls : SpinSelect(g)
    \/ \E g \in 1..MaxSpinnerCalls : SpinTick(g)
    \/ \E g \in 1..MaxSpinnerCalls : SpinReturn(g)

SpecSpinner == InitSpinner /\ [][NextSpinner]_vars

(***************************************************************************)
(* Claims on Spinner                                                       *)
(***************************************************************************)

\* the call this step makes, when it makes one
LastCall == history'[Len(history')]

IsCall(op) == history' # history /\ LastCall.op = op

\* no channel was closed twice, and a channel has been closed exactly when
\* its activation is over
ClosedOncePerActivation ==
    \A ch \in DOMAIN closes :
        /\ closes[ch] <= 1
        /\ closes[ch] = 1 <=> ~(active /\ done = ch)

\* C29: in every sequence of Start, Stop and StopWithMessage calls (and
\* Update calls) on a Spinner, a Start on an active spinner changes nothing,
\* message and done channel included; a Stop on an inactive spinner changes
\* nothing; no call panics; and the done channel of every activation is
\* closed once when the activation is stopped and never a second time
C29_SpinnerCallsAreIdempotent ==
    [][/\ IsCall("Start") /\ active =>
             UNCHANGED <<active, message, done, w, closes, spinning, ticks, panicked>>
       /\ IsCall("Start") /\ ~active =>
             /\ active' /\ message' = LastCall.message
             /\ done' \notin DOMAIN closes /\ closes'[done'] = 0
       /\ IsCall("Stop") /\ ~active =>
             UNCHANGED <<active, message, done, w, closes, spinning, ticks, panicked>>
       /\ (IsCall("Stop") \/ IsCall("StopWithMessage")) /\ active =>
             /\ ~active' /\ closes'[done] = 1
       /\ ~panicked'
       /\ ClosedOncePerActivation']_vars

\* the two tests in one: Start, a second Start that was ignored, Stop, and
\* a second Stop that did nothing
C29_Witness ==
    /\ ~isTTY
    /\ Len(history) = 4
    /\ history[1] = [op |-> "Start", message |-> "First"]
    /\ history[2] = [op |-> "Start", message |-> "Second"]
    /\ history[3].op = "Stop"
    /\ history[4].op = "Stop"
    /\ w = <<Line("First")>>
    /\ closes = <<1>>
    /\ ~active
    /\ ~panicked

\* the activation g is over: its done channel has been closed
Ended(g) == g \in DOMAIN closes /\ closes[g] >= 1

\* the goroutine of activation g waits on the channel of another activation
WaitsOnAnother(g) == g \in DOMAIN spinning /\ spinning[g].ch \notin {0, g}

C40_TwoSpinGoroutines ==
    /\ isTTY
    /\ Len(history) = 3
    /\ history[1].op = "Start"
    /\ history[2].op = "Stop"
    /\ history[3].op = "Start"
    /\ DOMAIN spinning = {1, 2}
    /\ spinning[1].ch = 2
    /\ closes = <<1, 0>>
    /\ active
    /\ ~panicked

====
